---- MODULE Spec2Model ----
(***************************************************************************)
(* Execution management core of NexusTrader (package tradebot):            *)
(*   - AsyncCache (tradebot/core/cache.py): in-memory orders, the open     *)
(*     order indexes, write-back to the external key-value store and TTL   *)
(*     eviction;                                                           *)
(*   - ExecutionManagementSystem (tradebot/base/ems.py): the per-account   *)
(*     submit queue and its worker, _create_order and _cancel_order.       *)
(* A step of the model is what runs between two awaits of the event loop.  *)
(***************************************************************************)
EXTENDS Integers, Sequences, FiniteSets, TLC

(***************************************************************************)
(* Bounds of the model.                                                    *)
(***************************************************************************)
\* envelopes a strategy puts on one queue in a run
MaxSubmits == 2

\* largest total amount of a TWAP parent, in lots
MaxTotalAmount == 4

\* child orders one TWAP run may submit
MaxChildren == 3

\* envelopes on the queue in a TWAP run: the TWAP and its CANCEL_TWAPs
MaxTwapSubmits == 3

\* failed cancels of one child in the watch phase
MaxCancelFailures == 1

\* _apply calls one SpotPosition receives
MaxApplies == 2

(***************************************************************************)
(* Program constants.                                                      *)
(***************************************************************************)
\* AsyncCache.expire_time, in ticks of the clock (one tick is 3600 s)
ExpireTime == 1

UUIDs == {"u1", "u2"}
Exchanges == {"BINANCE"}
Symbols == {"BTCUSDT.BINANCE", "ETHUSDT.BINANCE"}
AccountTypes == {"SPOT"}
None == "None"

\* the TWAP parent of a run, and the uuids its child OrderSubmits get
AlgoUuid == "ALGO-1"
ChildUuids == <<"c1", "c2", "c3">>

\* every uuid an Order can carry
OrderUuids == UUIDs \cup {ChildUuids[i] : i \in 1..MaxChildren}

\* Order.symbol / Order.exchange / Order.id of the order a uuid names; the
\* TWAP parent and its children trade the symbol of u2
SymbolOf(uuid) == IF uuid = "u1" THEN "BTCUSDT.BINANCE" ELSE "ETHUSDT.BINANCE"
ExchangeOf(uuid) == "BINANCE"
VenueIdOf(uuid) == "V-" \o uuid
VenueIds == {VenueIdOf(u) : u \in UUIDs}

(***************************************************************************)
(* Order statuses, the derived predicates and the transition table.        *)
(***************************************************************************)
OrderStatus ==
    {"INITIALIZED", "PENDING", "ACCEPTED", "PARTIALLY_FILLED", "FILLED",
     "CANCELING", "CANCELED", "FAILED", "EXPIRED"}

ClosedStatus == {"FILLED", "CANCELED", "FAILED", "EXPIRED"}

\* Order.is_closed
IsClosed(status) == status \in ClosedStatus

\* STATUS_TRANSITIONS[prev]
STATUS_TRANSITIONS(prev) ==
    CASE prev = "INITIALIZED" -> {"PENDING", "FAILED"}
      [] prev = "PENDING" ->
            {"ACCEPTED", "PARTIALLY_FILLED", "FILLED", "CANCELING", "CANCELED",
             "FAILED", "EXPIRED"}
      [] prev = "ACCEPTED" ->
            {"PARTIALLY_FILLED", "FILLED", "CANCELING", "CANCELED", "EXPIRED"}
      [] prev = "PARTIALLY_FILLED" ->
            {"PARTIALLY_FILLED", "FILLED", "CANCELING", "CANCELED", "EXPIRED"}
      [] prev = "CANCELING" ->
            {"PARTIALLY_FILLED", "FILLED", "CANCELED", "FAILED"}
      [] OTHER -> {}

\* statuses the venue pushes through the OMS
VenueStatus == {"ACCEPTED", "PARTIALLY_FILLED", "FILLED", "CANCELED", "EXPIRED"}

\* AlgoOrderStatus
AlgoOrderStatus ==
    {"INITIALIZED", "RUNNING", "FINISHED", "CANCELING", "CANCELED", "FAILED"}

\* topics the EMS publishes on
EmsTopics == {"pending", "failed", "canceling", "cancel_failed"}

VARIABLES
    mem_orders,              \* AsyncCache._mem_orders: uuid -> Order.  An Order
                             \* carries age = now - timestamp, not timestamp
    mem_open_orders,         \* AsyncCache._mem_open_orders: exchange -> set(uuid),
                             \* a defaultdict: its DOMAIN is the keys touched
    mem_symbol_open_orders,  \* AsyncCache._mem_symbol_open_orders
    mem_symbol_orders,       \* AsyncCache._mem_symbol_orders
    redis_orders,            \* external hash ...:orders: uuid -> encoded order
    redis_open_orders,       \* external sets ...:open_orders: exchange -> uuids
    redis_symbol_orders,     \* external sets ...:symbol_orders: symbol -> uuids
    sync_pc,                 \* position of the _periodic_sync task
    uuid_to_order_id,        \* OrderRegistry: uuid -> venue id
    order_id_to_uuid,        \* OrderRegistry: venue id -> uuid
    queue,                   \* _order_submit_queues: account type -> FIFO
    pc,                      \* position of each _handle_submit_order worker
    cur,                     \* the envelope each worker is handling
    published,               \* messages sent per endpoint and uuid
    submitted,               \* envelopes put on each queue so far
    handled,                 \* envelopes each worker has finished
    created,                 \* uuids a CREATE envelope was submitted for
    last_status,             \* last status committed per uuid, kept across eviction
    mem_algo_orders,         \* AsyncCache._mem_algo_orders: uuid -> AlgoOrder
    twap,                    \* the _twap_order task: its position and locals
    twap_params,             \* amount, duration // wait and minimum order
                             \* amount of the TWAP envelope, in lots
    qty,                     \* uuid -> type, amount and filled of the Order,
                             \* and whether it is a slice or a reclaim
    algo_recorded,           \* the statuses _order_status_update was given
                             \* for the parent, in order
    mem_closed_orders,       \* AsyncCache._mem_closed_orders: the uuids
                             \* whose entry is True
    mem_spot_positions,      \* AsyncCache._mem_spot_positions: symbol -> the
                             \* _apply calls the SpotPosition has received
    terminal_applied,        \* uuids whose FILLED or CANCELED order was
                             \* given to SpotPosition._apply, kept for good
    applied_last,            \* uuid -> status of the order the last
                             \* _apply_spot_position call for it was given
    calc,                    \* the call of a pure method of the EMS under
                             \* way: its name, its arguments, its result
    venue_ems                \* the EMS of one venue: its connectors, its
                             \* _order_submit_queues, the account types
                             \* _set_account_type chose

cacheVars ==
    <<mem_orders, mem_open_orders, mem_symbol_open_orders, mem_symbol_orders>>
redisVars == <<redis_orders, redis_open_orders, redis_symbol_orders>>
registryVars == <<uuid_to_order_id, order_id_to_uuid>>
workerVars == <<queue, pc, cur, submitted, handled, created>>
twapVars == <<mem_algo_orders, twap, twap_params, qty, algo_recorded>>
taskVars == <<twap, twap_params, qty, algo_recorded>>
posVars ==
    <<mem_closed_orders, mem_spot_positions, terminal_applied, applied_last>>
baseVars ==
    <<cacheVars, redisVars, sync_pc, registryVars, workerVars, published,
      last_status>>
vars ==
    <<cacheVars, redisVars, sync_pc, registryVars, workerVars, published,
      last_status, twapVars, posVars, calc, venue_ems>>

NoEnvelope == [submit_type |-> None, uuid |-> None, seq |-> 0]

\* no _twap_order task exists.  dropped is the uuid of a child whose
\* create_order call the venue accepted while the task was cancelled at the
\* await of that call: the result never reached the task
NoTwap ==
    [pc |-> "none", amount_list |-> <<>>, order_id |-> None,
     status |-> None, orders |-> <<>>, cancel |-> FALSE,
     open_orders |-> {}, snapshot |-> {}, target |-> None, amount |-> 0, type |-> None,
     kind |-> None, children |-> 0, dropped |-> None]

\* parameters of a run without TWAP envelope
NoParams ==
    [given |-> FALSE, amount |-> 0, interval |-> 1, min_order_amount |-> 1]

TwapIdle ==
    /\ mem_algo_orders = <<>>
    /\ twap = NoTwap
    /\ twap_params = NoParams
    /\ qty = <<>>
    /\ algo_recorded = <<>>

\* no call of a pure method of the EMS is under way
NoCalc == [op |-> None]

CalcIdle == calc = NoCalc

(***************************************************************************)
(* The venue subclasses of ExecutionManagementSystem: _build with the      *)
(* private connectors of the venue, then _submit_order.  A dict keeps its  *)
(* keys in insertion order, so the connectors are the sequence of their    *)
(* account types in the order they were registered.                        *)
(***************************************************************************)
\* private connectors registered with one EMS
MaxConnectors == 3

\* envelopes handed to _submit_order of one EMS
MaxRouted == 1

OkxAccountTypes == {"DEMO", "AWS", "LIVE"}
\* the Bybit account types _set_account_type names, and those the engine
\* registers private connectors under
BybitDefaultAccountTypes == {"UNIFIED_TESTNET", "UNIFIED"}
BybitEngineAccountTypes == {"ALL_TESTNET", "ALL"}
BybitAccountTypes == BybitDefaultAccountTypes \cup BybitEngineAccountTypes
BinanceAccountTypes ==
    {"ISOLATED_MARGIN", "MARGIN", "SPOT_TESTNET", "SPOT",
     "USD_M_FUTURE_TESTNET", "USD_M_FUTURE", "COIN_M_FUTURE_TESTNET",
     "COIN_M_FUTURE", "PORTFOLIO_MARGIN"}

VenueAccountTypes(venue) ==
    CASE venue = "OKX" -> OkxAccountTypes
      [] venue = "BYBIT" -> BybitAccountTypes
      [] venue = "BINANCE" -> BinanceAccountTypes

OKX_ACCOUNT_TYPE_PRIORITY == <<"DEMO", "AWS", "LIVE">>
BINANCE_SPOT_PRIORITY == <<"ISOLATED_MARGIN", "MARGIN", "SPOT_TESTNET", "SPOT">>

\* InstrumentId.is_spot / is_linear / is_inverse
InstrumentKinds == {"spot", "linear", "inverse"}

\* the fields _set_account_type assigns: _okx_account_type and
\* _bybit_account_type (default), _binance_spot_account_type,
\* _binance_linear_account_type, _binance_inverse_account_type and
\* _binance_pm_account_type; all None after __init__
AccountTypeFields == {"default", "spot", "linear", "inverse", "pm"}
NoAccountTypes == [f \in AccountTypeFields |-> None]

\* an EMS of the venue after __init__
NewVenueEms(venue) ==
    [venue |-> venue, built |-> FALSE, private_connectors |-> <<>>,
     order_submit_queues |-> <<>>, account_type |-> NoAccountTypes,
     routed |-> 0, raised |-> FALSE, rejected |-> <<>>]

\* no venue EMS is under construction
NoVenueEms == NewVenueEms(None)

VenueEmsIdle == venue_ems = NoVenueEms

\* no position, no order applied to one
PosIdle ==
    /\ mem_closed_orders = {}
    /\ mem_spot_positions = <<>>
    /\ terminal_applied = {}
    /\ applied_last = [u \in UUIDs |-> None]

BaseIdle ==
    /\ mem_orders = <<>>
    /\ mem_open_orders = <<>>
    /\ mem_symbol_open_orders = <<>>
    /\ mem_symbol_orders = <<>>
    /\ redis_orders = <<>>
    /\ redis_open_orders = <<>>
    /\ redis_symbol_orders = <<>>
    /\ sync_pc = "sleep"
    /\ uuid_to_order_id = <<>>
    /\ order_id_to_uuid = <<>>
    /\ queue = [a \in AccountTypes |-> <<>>]
    /\ pc = [a \in AccountTypes |-> "get"]
    /\ cur = [a \in AccountTypes |-> NoEnvelope]
    /\ published = [t \in EmsTopics |-> [u \in OrderUuids |-> 0]]
    /\ submitted = [a \in AccountTypes |-> 0]
    /\ handled = [a \in AccountTypes |-> 0]
    /\ created = {}
    /\ last_status = [u \in OrderUuids |-> None]

Init ==
    /\ TwapIdle
    /\ PosIdle
    /\ CalcIdle
    /\ VenueEmsIdle
    /\ BaseIdle

(***************************************************************************)
(* Dictionaries.  A dict is a function whose DOMAIN is its keys; the three *)
(* index dicts are defaultdict(set), which create the key on subscript.    *)
(***************************************************************************)
\* d[k] = v
Put(d, k, v) == [x \in DOMAIN d \cup {k} |-> IF x = k THEN v ELSE d[x]]

\* d.get(k, set()): the stored set, no key is created
GetSet(d, k) == IF k \in DOMAIN d THEN d[k] ELSE {}

\* d[k].add(uuid) on a defaultdict(set)
SetAdd(d, k, uuid) == Put(d, k, GetSet(d, k) \cup {uuid})

\* d[k].discard(uuid) on a defaultdict(set)
SetDiscard(d, k, uuid) == Put(d, k, GetSet(d, k) \ {uuid})

\* del d[k] for every k in keys
Remove(d, keys) == [x \in DOMAIN d \ keys |-> d[x]]

(***************************************************************************)
(* AsyncCache                                                              *)
(***************************************************************************)
\* msgspec.json.encode(order): the record as the array of its fields
Encode(order) == <<order.uuid, order.status, order.age>>

\* msgspec.json.decode(data, type=Order)
Decode(data) == [uuid |-> data[1], status |-> data[2], age |-> data[3]]

\* AsyncCache._check_status_transition
CheckStatusTransition(order) ==
    IF order.uuid \notin DOMAIN mem_orders
    THEN TRUE
    ELSE order.status \in STATUS_TRANSITIONS(mem_orders[order.uuid].status)

\* AsyncCache._order_initialized, the Order branch
OrderInitialized(order) ==
    IF ~CheckStatusTransition(order)
    THEN UNCHANGED <<cacheVars, last_status>>
    ELSE /\ mem_orders' = Put(mem_orders, order.uuid, order)
         /\ mem_open_orders' =
                SetAdd(mem_open_orders, ExchangeOf(order.uuid), order.uuid)
         /\ mem_symbol_orders' =
                SetAdd(mem_symbol_orders, SymbolOf(order.uuid), order.uuid)
         /\ mem_symbol_open_orders' =
                SetAdd(mem_symbol_open_orders, SymbolOf(order.uuid), order.uuid)
         /\ last_status' = [last_status EXCEPT ![order.uuid] = order.status]

\* a mutant of OrderStatusUpdate: the open sets are updated before the
\* transition is checked
OrderStatusUpdateIndexFirst(order) ==
    /\ IF IsClosed(order.status)
       THEN /\ mem_open_orders' =
                    SetDiscard(mem_open_orders, ExchangeOf(order.uuid),
                               order.uuid)
            /\ mem_symbol_open_orders' =
                    SetDiscard(mem_symbol_open_orders, SymbolOf(order.uuid),
                               order.uuid)
       ELSE UNCHANGED <<mem_open_orders, mem_symbol_open_orders>>
    /\ IF CheckStatusTransition(order)
       THEN /\ mem_orders' = Put(mem_orders, order.uuid, order)
            /\ last_status' = [last_status EXCEPT ![order.uuid] = order.status]
       ELSE UNCHANGED <<mem_orders, last_status>>
    /\ UNCHANGED mem_symbol_orders

\* a mutant of OrderStatusUpdate: a closed order is discarded from the
\* exchange's open set only
OrderStatusUpdateExchangeOnly(order) ==
    IF ~CheckStatusTransition(order)
    THEN UNCHANGED <<cacheVars, last_status>>
    ELSE /\ mem_orders' = Put(mem_orders, order.uuid, order)
         /\ IF IsClosed(order.status)
            THEN mem_open_orders' =
                        SetDiscard(mem_open_orders, ExchangeOf(order.uuid),
                                   order.uuid)
            ELSE UNCHANGED mem_open_orders
         /\ UNCHANGED <<mem_symbol_orders, mem_symbol_open_orders>>
         /\ last_status' = [last_status EXCEPT ![order.uuid] = order.status]

\* AsyncCache._order_status_update, the Order branch
OrderStatusUpdate(order) ==
    IF ~CheckStatusTransition(order)
    THEN UNCHANGED <<cacheVars, last_status>>
    ELSE /\ mem_orders' = Put(mem_orders, order.uuid, order)
         /\ IF IsClosed(order.status)
            THEN /\ mem_open_orders' =
                        SetDiscard(mem_open_orders, ExchangeOf(order.uuid),
                                   order.uuid)
                 /\ mem_symbol_open_orders' =
                        SetDiscard(mem_symbol_open_orders,
                                   SymbolOf(order.uuid), order.uuid)
            ELSE UNCHANGED <<mem_open_orders, mem_symbol_open_orders>>
         /\ UNCHANGED mem_symbol_orders
         /\ last_status' = [last_status EXCEPT ![order.uuid] = order.status]

\* AsyncCache.get_order for an order uuid: memory first, then the external
\* hash, decoding and re-caching on a hit
GetOrder(uuid) ==
    /\ IF uuid \in DOMAIN mem_orders
       THEN UNCHANGED <<mem_orders, last_status>>
       ELSE IF uuid \in DOMAIN redis_orders
            THEN /\ mem_orders' =
                        Put(mem_orders, uuid, Decode(redis_orders[uuid]))
                 /\ last_status' =
                        [last_status EXCEPT
                            ![uuid] = Decode(redis_orders[uuid]).status]
            ELSE UNCHANGED <<mem_orders, last_status>>
    /\ UNCHANGED <<mem_open_orders, mem_symbol_open_orders,
                   mem_symbol_orders, redisVars, sync_pc, registryVars,
                   workerVars, published>>

\* the uuids _cleanup_expired_data finds expired:
\* order.timestamp < now - expire_time, that is now - timestamp > expire_time
ExpiredOrders ==
    {u \in DOMAIN mem_orders : mem_orders[u].age > ExpireTime}

\* the AlgoOrders _cleanup_expired_data finds expired
ExpiredAlgoOrders ==
    {u \in DOMAIN mem_algo_orders : mem_algo_orders[u].age > ExpireTime}

\* AsyncCache._cleanup_expired_data
CleanupExpiredData ==
    /\ mem_orders' = Remove(mem_orders, ExpiredOrders)
    /\ mem_closed_orders' = mem_closed_orders \ ExpiredOrders
    /\ mem_symbol_orders' =
            [s \in DOMAIN mem_symbol_orders |->
                mem_symbol_orders[s] \ ExpiredOrders]
    /\ mem_algo_orders' = Remove(mem_algo_orders, ExpiredAlgoOrders)
    /\ UNCHANGED <<mem_open_orders, mem_symbol_open_orders>>

\* whether _sync_to_redis has anything to write, that is, reaches an await
SyncHasWork ==
    \/ DOMAIN mem_orders # {}
    \/ DOMAIN mem_open_orders # {}
    \/ DOMAIN mem_symbol_orders # {}
    \/ DOMAIN mem_symbol_open_orders # {}
    \/ DOMAIN mem_algo_orders # {}
    \/ DOMAIN mem_spot_positions # {}

\* _periodic_sync wakes: _sync_to_redis copies _mem_orders and writes each
\* entry of the copy to the orders hash.  With nothing to write the pass has
\* no await and _cleanup_expired_data follows at once.
SyncBegin ==
    /\ sync_pc = "sleep"
    /\ redis_orders' =
            [u \in DOMAIN redis_orders \cup DOMAIN mem_orders |->
                IF u \in DOMAIN mem_orders THEN Encode(mem_orders[u])
                ELSE redis_orders[u]]
    /\ IF SyncHasWork
       THEN /\ sync_pc' = "syncing"
            /\ UNCHANGED <<cacheVars, mem_closed_orders, mem_algo_orders>>
       ELSE /\ sync_pc' = "sleep"
            /\ CleanupExpiredData
    /\ UNCHANGED <<redis_open_orders, redis_symbol_orders, registryVars,
                   workerVars, published, last_status>>

\* a mutant of SyncOpenOrders: the uuids are added without the delete
SyncOpenOrdersNoDelete ==
    [e \in DOMAIN redis_open_orders \cup DOMAIN mem_open_orders |->
        GetSet(redis_open_orders, e) \cup GetSet(mem_open_orders, e)]

\* the open_orders loop of _sync_to_redis: for every exchange of the copied
\* dict the key is deleted and, when the set is not empty, its uuids are
\* added again.  The copy is shallow, so the uuids written are those of the
\* live set.
SyncOpenOrders ==
    [e \in DOMAIN redis_open_orders \cup DOMAIN mem_open_orders |->
        IF e \in DOMAIN mem_open_orders THEN mem_open_orders[e]
        ELSE redis_open_orders[e]]

\* the symbol_orders loop of _sync_to_redis: for every symbol of the copied
\* dict the key is deleted and, when the set is not empty, its uuids are
\* added again
SyncSymbolOrders ==
    [s \in DOMAIN redis_symbol_orders \cup DOMAIN mem_symbol_orders |->
        IF s \in DOMAIN mem_symbol_orders THEN mem_symbol_orders[s]
        ELSE redis_symbol_orders[s]]

\* the rest of _sync_to_redis but for the symbol_orders sets: the
\* open_orders sets are rewritten (the symbol_open_orders sets and the
\* positions it also writes are read back by no operation modelled here);
\* then _cleanup_expired_data, then the sleep
SyncRest ==
    /\ sync_pc = "syncing"
    /\ redis_open_orders' = SyncOpenOrders
    /\ CleanupExpiredData
    /\ sync_pc' = "sleep"
    /\ UNCHANGED <<redis_orders, registryVars, workerVars, published,
                   last_status>>

\* the rest of _sync_to_redis, then _cleanup_expired_data, then the sleep
SyncFinish ==
    /\ SyncRest
    /\ redis_symbol_orders' = SyncSymbolOrders

\* SyncFinish where no operation reads the symbol_orders sets of the
\* external store: they are not followed
SyncFinishUnread ==
    /\ SyncRest
    /\ UNCHANGED redis_symbol_orders

\* an age one tick later; ages beyond expiry are not told apart
Older(age) == IF age > ExpireTime THEN age ELSE age + 1

\* the clock advances by one tick: every stored timestamp is one tick older
Tick ==
    /\ mem_orders' =
            [u \in DOMAIN mem_orders |->
                [mem_orders[u] EXCEPT !.age = Older(@)]]
    /\ redis_orders' =
            [u \in DOMAIN redis_orders |->
                Encode([Decode(redis_orders[u]) EXCEPT !.age = Older(@)])]
    /\ mem_algo_orders' =
            [u \in DOMAIN mem_algo_orders |->
                [mem_algo_orders[u] EXCEPT !.age = Older(@)]]
    /\ UNCHANGED <<mem_open_orders, mem_symbol_open_orders, mem_symbol_orders,
                   redis_open_orders, redis_symbol_orders, sync_pc,
                   registryVars, workerVars, published, last_status>>

(***************************************************************************)
(* OrderRegistry                                                           *)
(***************************************************************************)
\* OrderRegistry.register_order: both directions, last write wins
RegisterOrder(order) ==
    /\ uuid_to_order_id' = Put(uuid_to_order_id, order.uuid, VenueIdOf(order.uuid))
    /\ order_id_to_uuid' = Put(order_id_to_uuid, VenueIdOf(order.uuid), order.uuid)

\* OrderRegistry.get_order_id
GetOrderId(uuid) ==
    IF uuid \in DOMAIN uuid_to_order_id THEN uuid_to_order_id[uuid] ELSE None

\* OrderRegistry.get_uuid
GetUuid(order_id) ==
    IF order_id \in DOMAIN order_id_to_uuid THEN order_id_to_uuid[order_id]
    ELSE None

(***************************************************************************)
(* PrivateConnector: the normalized Order a call returns.  A failure is    *)
(* in-band, success = false with status FAILED.                            *)
(***************************************************************************)
\* PrivateConnector.create_order
ConnectorCreateOrder(uuid, success) ==
    [uuid |-> uuid, status |-> IF success THEN "PENDING" ELSE "FAILED",
     age |-> 0]

\* PrivateConnector.cancel_order
ConnectorCancelOrder(uuid, success) ==
    [uuid |-> uuid, status |-> IF success THEN "CANCELING" ELSE "FAILED",
     age |-> 0]

(***************************************************************************)
(* ExecutionManagementSystem                                               *)
(***************************************************************************)
\* MessageBus.send(endpoint, msg)
Send(endpoint, order) ==
    published' =
        [published EXCEPT ![endpoint][order.uuid] = @ + 1]

\* _submit_order: put_nowait on the queue of the account type.  A strategy
\* gives every order a fresh uuid, so a uuid gets one CREATE.
SubmitOrder(a, submit_type, uuid) ==
    /\ submit_type = "CREATE" => uuid \notin created
    /\ queue' =
            [queue EXCEPT ![a] =
                Append(@, [submit_type |-> submit_type, uuid |-> uuid,
                           seq |-> submitted[a] + 1])]
    /\ submitted' = [submitted EXCEPT ![a] = @ + 1]
    /\ created' = IF submit_type = "CREATE" THEN created \cup {uuid} ELSE created
    /\ UNCHANGED <<cacheVars, redisVars, sync_pc, registryVars, pc, cur,
                   handled, published, last_status>>

\* a mutant of QueueGetIndex: the newest envelope is taken first
QueueGetIndexLifo(q) == Len(q)

\* asyncio.Queue.get: the position of the envelope taken
QueueGetIndex(q) == 1

\* the queue without the envelope at position i
QueueWithout(q, i) == [j \in 1..(Len(q) - 1) |-> IF j < i THEN q[j] ELSE q[j + 1]]

\* a mutant of HasOrderId: the lookup result is not tested
HasOrderIdAlways(uuid) == TRUE

\* _cancel_order: order_id = get_order_id(uuid); if order_id
HasOrderId(uuid) == GetOrderId(uuid) # None

\* a mutant of TaskDone: the worker's loop ends with the envelope
TaskDoneWorkerExits(a) ==
    /\ pc' = [pc EXCEPT ![a] = "exited"]
    /\ cur' = [cur EXCEPT ![a] = NoEnvelope]
    /\ handled' = [handled EXCEPT ![a] = @ + 1]

\* the worker finishes an envelope: queue.task_done(), back to queue.get()
TaskDone(a) ==
    /\ pc' = [pc EXCEPT ![a] = "get"]
    /\ cur' = [cur EXCEPT ![a] = NoEnvelope]
    /\ handled' = [handled EXCEPT ![a] = @ + 1]

\* _create_twap_order: TaskManager.create_task(self._twap_order(...)); the
\* task is scheduled and has not run yet
CreateTwapOrder(order_submit) ==
    twap' = [NoTwap EXCEPT !.pc = "scheduled"]

\* _cancel_twap_order: TaskManager.cancel_task(uuid), the task's cancel().
\* A task that has not started never runs; a task suspended at an await gets
\* CancelledError when it resumes; a finished task is left alone.
CancelTwapOrder(order_submit) ==
    twap' =
        CASE twap.pc = "scheduled" -> [twap EXCEPT !.pc = "cancelled"]
          [] twap.pc \in {"none", "done", "cancelled"} -> twap
          [] OTHER -> [twap EXCEPT !.cancel = TRUE]

\* _handle_submit_order: queue.get() and the dispatch on submit_type, up to
\* the connector call the handler awaits.  _cancel_order of a uuid without a
\* registry entry logs and returns; _create_twap_order and
\* _cancel_twap_order have no await.
HandleSubmitOrder(a) ==
    /\ pc[a] = "get"
    /\ queue[a] # <<>>
    /\ LET i == QueueGetIndex(queue[a])
           order_submit == queue[a][i]
       IN  /\ queue' = [queue EXCEPT ![a] = QueueWithout(@, i)]
           /\ CASE order_submit.submit_type = "CANCEL" ->
                    /\ IF HasOrderId(order_submit.uuid)
                       THEN /\ pc' = [pc EXCEPT ![a] = "cancel_order"]
                            /\ cur' = [cur EXCEPT ![a] = order_submit]
                            /\ UNCHANGED handled
                       ELSE TaskDone(a)
                    /\ UNCHANGED twap
                [] order_submit.submit_type = "CREATE" ->
                    /\ pc' = [pc EXCEPT ![a] = "create_order"]
                    /\ cur' = [cur EXCEPT ![a] = order_submit]
                    /\ UNCHANGED <<handled, twap>>
                [] order_submit.submit_type = "TWAP" ->
                    /\ CreateTwapOrder(order_submit)
                    /\ TaskDone(a)
                [] order_submit.submit_type = "CANCEL_TWAP" ->
                    /\ CancelTwapOrder(order_submit)
                    /\ TaskDone(a)
    /\ UNCHANGED <<cacheVars, redisVars, sync_pc, registryVars, submitted,
                   created, published, last_status, mem_algo_orders,
                   twap_params, qty, algo_recorded>>

\* a mutant of CreateSucceeded: the order is cached but not registered
CreateSucceededNoRegister(order) ==
    /\ UNCHANGED registryVars
    /\ OrderInitialized(order)
    /\ Send("pending", order)

\* _create_order, order.success: register, _order_initialized, publish
CreateSucceeded(order) ==
    /\ RegisterOrder(order)
    /\ OrderInitialized(order)
    /\ Send("pending", order)

\* a mutant of CreateFailed: the failed order goes through _order_initialized
CreateFailedInitialized(order) ==
    /\ UNCHANGED registryVars
    /\ OrderInitialized(order)
    /\ Send("failed", order)

\* _create_order, not order.success: _order_status_update, publish
CreateFailed(order) ==
    /\ UNCHANGED registryVars
    /\ OrderStatusUpdate(order)
    /\ Send("failed", order)

\* a mutant of CancelSucceeded: the cache is updated, nothing is published
CancelSucceededNoSend(order) ==
    /\ OrderStatusUpdate(order)
    /\ UNCHANGED published

\* _cancel_order, order.success: _order_status_update, publish
CancelSucceeded(order) ==
    /\ OrderStatusUpdate(order)
    /\ Send("canceling", order)

\* a mutant of CancelFailed: the failed cancel is written to the cache
CancelFailedUpdatesCache(order) ==
    /\ OrderStatusUpdate(order)
    /\ Send("cancel_failed", order)

\* _cancel_order, not order.success: publish only
CancelFailed(order) ==
    /\ UNCHANGED <<cacheVars, last_status>>
    /\ Send("cancel_failed", order)

\* _create_order after connector.create_order returns
CreateOrderReturn(a, success) ==
    /\ pc[a] = "create_order"
    /\ LET order == ConnectorCreateOrder(cur[a].uuid, success)
       IN  IF success THEN CreateSucceeded(order) ELSE CreateFailed(order)
    /\ TaskDone(a)
    /\ UNCHANGED <<redisVars, sync_pc, queue, submitted, created>>

\* _cancel_order after connector.cancel_order returns
CancelOrderReturn(a, success) ==
    /\ pc[a] = "cancel_order"
    /\ LET order == ConnectorCancelOrder(cur[a].uuid, success)
       IN  IF success THEN CancelSucceeded(order) ELSE CancelFailed(order)
    /\ TaskDone(a)
    /\ UNCHANGED <<redisVars, sync_pc, registryVars, queue, submitted,
                   created>>

(***************************************************************************)
(* OMS: a status the venue pushes for an order it knows by its venue id.   *)
(* The uuid is resolved through the registry; the cache decides.           *)
(***************************************************************************)
OmsStatusUpdate(uuid, status) ==
    /\ GetUuid(VenueIdOf(uuid)) = uuid
    /\ OrderStatusUpdate([uuid |-> uuid, status |-> status, age |-> 0])
    /\ UNCHANGED <<redisVars, sync_pc, registryVars, workerVars,
                   published>>

(***************************************************************************)
(* TWAP engine: _calculate_twap_orders and the _twap_order task.  Amounts  *)
(* are in lots (the amount precision of the market is one lot); the sleeps *)
(* are steps of no determined length.                                      *)
(***************************************************************************)
Max(x, y) == IF x >= y THEN x ELSE y

\* _amount_to_precision of the fraction num / den of a lot
AmountToPrecision(num, den, mode) ==
    CASE mode = "round" -> (2 * num + den) \div (2 * den)
      [] mode = "ceil" -> (num + den - 1) \div den
      [] mode = "floor" -> num \div den

\* a mutant of CalculateTwapOrders: no branch for a zero amount
CalculateTwapOrdersNoZero(total_amount, interval, min_order_amount) ==
    IF total_amount < min_order_amount THEN <<min_order_amount>>
    ELSE <<total_amount>>

\* a mutant of CalculateTwapOrders: an amount below the minimum is sliced
\* as it is
CalculateTwapOrdersBelowMin(total_amount, interval, min_order_amount) ==
    IF total_amount = 0 THEN <<>> ELSE <<total_amount>>

\* _calculate_twap_orders: the slice list; interval is duration // wait
CalculateTwapOrders(total_amount, interval, min_order_amount) ==
    IF total_amount = 0 THEN <<>>
    ELSE IF total_amount < min_order_amount THEN <<min_order_amount>>
    ELSE LET base_amount ==
                Max(min_order_amount,
                    AmountToPrecision(total_amount, interval, "round"))
             n == total_amount \div base_amount
             remaining == total_amount - n * base_amount
         IN  IF remaining < min_order_amount
             THEN [i \in 1..n |->
                      IF i = n THEN base_amount + remaining ELSE base_amount]
             ELSE [i \in 1..n |-> base_amount] \o <<remaining>>

\* _calculate_twap_orders: the wait it returns next to the slice list, as
\* the fraction num / den
CalculateTwapWait(total_amount, duration, interval, min_order_amount) ==
    IF total_amount = 0 \/ total_amount < min_order_amount
    THEN [num |-> 0, den |-> 1]
    ELSE [num |-> duration,
          den |-> Len(CalculateTwapOrders(total_amount, interval,
                                          min_order_amount))]

\* Order.is_opened and Order.on_flight
IsOpened(status) == status \in {"PENDING", "ACCEPTED", "PARTIALLY_FILLED"}
OnFlight(status) == status = "CANCELING"

\* the AlgoOrder object of the task, which is the object the cache holds
AlgoRecord(tw) == [status |-> tw.status, orders |-> tw.orders, age |-> 0]

\* algo_recorded after one more _order_status_update(algo_order)
Record(hist, status) ==
    IF hist # <<>> /\ hist[Len(hist)] = status THEN hist
    ELSE Append(hist, status)

\* a mutant of PlaceSlice: every slice is a LIMIT order
PlaceSliceAllLimit(tw) ==
    LET n == Len(tw.amount_list)
    IN  [tw EXCEPT !.pc = "create_order", !.kind = "slice",
                   !.amount_list = SubSeq(tw.amount_list, 1, n - 1),
                   !.amount = tw.amount_list[n], !.type = "LIMIT"]

\* amount_list.pop() and the OrderSubmit of the slice: LIMIT while slices
\* remain, MARKET for the one that empties the list
PlaceSlice(tw) ==
    LET n == Len(tw.amount_list)
        rest == SubSeq(tw.amount_list, 1, n - 1)
    IN  [tw EXCEPT !.pc = "create_order", !.kind = "slice",
                   !.amount_list = rest, !.amount = tw.amount_list[n],
                   !.type = IF rest # <<>> THEN "LIMIT" ELSE "MARKET"]

\* a mutant of LoopHead: a remaining quantity at or below the minimum is
\* not added to the next slice
LoopHeadNoFold(tw, orders, quantities, registry) ==
    IF tw.amount_list = <<>> THEN [tw EXCEPT !.pc = "finish"]
    ELSE IF tw.order_id = None THEN PlaceSlice(tw)
    ELSE LET status ==
                IF tw.order_id \in DOMAIN orders
                THEN orders[tw.order_id].status ELSE None
         IN  IF IsOpened(status) /\ ~OnFlight(status)
             THEN IF tw.order_id \in DOMAIN registry
                  THEN [tw EXCEPT !.pc = "cancel_order"]
                  ELSE [tw EXCEPT !.pc = "spin"]
             ELSE IF IsClosed(status)
             THEN LET remaining ==
                        quantities[tw.order_id].amount
                            - quantities[tw.order_id].filled
                  IN  IF remaining > twap_params.min_order_amount
                      THEN [tw EXCEPT !.pc = "create_order",
                                      !.kind = "reclaim", !.order_id = None,
                                      !.amount = remaining, !.type = "MARKET"]
                      ELSE PlaceSlice([tw EXCEPT !.order_id = None])
             ELSE [tw EXCEPT !.pc = "sleep"]

\* a mutant of LoopHead: a watched child that is neither open nor closed
\* (its cancel is on its way) is not waited for, the next slice is placed
LoopHeadNoWait(tw, orders, quantities, registry) ==
    IF tw.amount_list = <<>> THEN [tw EXCEPT !.pc = "finish"]
    ELSE IF tw.order_id = None THEN PlaceSlice(tw)
    ELSE LET status ==
                IF tw.order_id \in DOMAIN orders
                THEN orders[tw.order_id].status ELSE None
         IN  IF IsOpened(status) /\ ~OnFlight(status)
             THEN IF tw.order_id \in DOMAIN registry
                  THEN [tw EXCEPT !.pc = "cancel_order"]
                  ELSE [tw EXCEPT !.pc = "spin"]
             ELSE IF IsClosed(status)
             THEN LET remaining ==
                        quantities[tw.order_id].amount
                            - quantities[tw.order_id].filled
                      n == Len(tw.amount_list)
                  IN  IF remaining > twap_params.min_order_amount
                      THEN [tw EXCEPT !.pc = "create_order",
                                      !.kind = "reclaim", !.order_id = None,
                                      !.amount = remaining, !.type = "MARKET"]
                      ELSE PlaceSlice([tw EXCEPT !.order_id = None,
                                                 !.amount_list[n] = @ + remaining])
             ELSE PlaceSlice([tw EXCEPT !.order_id = None])

\* a mutant of LoopHead: a remaining quantity equal to the minimum is
\* reclaimed too
LoopHeadReclaimAtMin(tw, orders, quantities, registry) ==
    IF tw.amount_list = <<>> THEN [tw EXCEPT !.pc = "finish"]
    ELSE IF tw.order_id = None THEN PlaceSlice(tw)
    ELSE LET status ==
                IF tw.order_id \in DOMAIN orders
                THEN orders[tw.order_id].status ELSE None
         IN  IF IsOpened(status) /\ ~OnFlight(status)
             THEN IF tw.order_id \in DOMAIN registry
                  THEN [tw EXCEPT !.pc = "cancel_order"]
                  ELSE [tw EXCEPT !.pc = "spin"]
             ELSE IF IsClosed(status)
             THEN LET remaining ==
                        quantities[tw.order_id].amount
                            - quantities[tw.order_id].filled
                      n == Len(tw.amount_list)
                  IN  IF remaining >= twap_params.min_order_amount
                      THEN [tw EXCEPT !.pc = "create_order",
                                      !.kind = "reclaim", !.order_id = None,
                                      !.amount = remaining, !.type = "MARKET"]
                      ELSE PlaceSlice([tw EXCEPT !.order_id = None,
                                                 !.amount_list[n] = @ + remaining])
             ELSE [tw EXCEPT !.pc = "sleep"]

\* the while loop of _twap_order from its head to the next await, or to the
\* statement after the loop (pc = "finish"); orders and quantities are the
\* cache the loop reads, registry the uuid -> venue id map _cancel_order
\* looks the watched child up in (without an entry it returns without an
\* await and the loop turns again at once)
LoopHead(tw, orders, quantities, registry) ==
    IF tw.amount_list = <<>> THEN [tw EXCEPT !.pc = "finish"]
    ELSE IF tw.order_id = None THEN PlaceSlice(tw)
    ELSE LET status ==
                IF tw.order_id \in DOMAIN orders
                THEN orders[tw.order_id].status ELSE None
         IN  IF IsOpened(status) /\ ~OnFlight(status)
             THEN IF tw.order_id \in DOMAIN registry
                  THEN [tw EXCEPT !.pc = "cancel_order"]
                  ELSE [tw EXCEPT !.pc = "spin"]
             ELSE IF IsClosed(status)
             THEN LET remaining ==
                        quantities[tw.order_id].amount
                            - quantities[tw.order_id].filled
                      n == Len(tw.amount_list)
                  IN  IF remaining > twap_params.min_order_amount
                      THEN [tw EXCEPT !.pc = "create_order",
                                      !.kind = "reclaim", !.order_id = None,
                                      !.amount = remaining, !.type = "MARKET"]
                      ELSE PlaceSlice([tw EXCEPT !.order_id = None,
                                                 !.amount_list[n] = @ + remaining])
             ELSE [tw EXCEPT !.pc = "sleep"]

\* the statements after the while loop when the loop was left (pc =
\* "finish"): status FINISHED, _order_status_update; the cache holds the
\* task's AlgoOrder object itself
AfterLoop(tw, hist) ==
    IF tw.pc = "finish"
    THEN LET done == [tw EXCEPT !.pc = "done", !.status = "FINISHED"]
         IN  /\ twap' = done
             /\ mem_algo_orders' = Put(mem_algo_orders, AlgoUuid, AlgoRecord(done))
             /\ algo_recorded' = Record(hist, "FINISHED")
    ELSE /\ twap' = tw
         /\ mem_algo_orders' = Put(mem_algo_orders, AlgoUuid, AlgoRecord(tw))
         /\ algo_recorded' = hist

\* the task's first step: the AlgoOrder is built RUNNING and given to
\* _order_initialized, the slice list is computed, the loop is entered
TwapStart ==
    /\ twap.pc = "scheduled"
    /\ LET amount_list ==
                CalculateTwapOrders(twap_params.amount, twap_params.interval,
                                    twap_params.min_order_amount)
           tw == [twap EXCEPT !.status = "RUNNING", !.amount_list = amount_list]
       IN  AfterLoop(LoopHead(tw, mem_orders, qty, uuid_to_order_id), <<"RUNNING">>)
    /\ UNCHANGED <<baseVars, twap_params, qty>>

\* the task resumes from await self._create_order(...) of a slice or of a
\* reclaim order
TwapCreateReturn(success) ==
    /\ twap.pc = "create_order"
    /\ ~twap.cancel
    /\ twap.children < MaxChildren
    /\ LET uuid == ChildUuids[twap.children + 1]
           order == ConnectorCreateOrder(uuid, success)
           tw == [twap EXCEPT !.children = @ + 1]
       IN  /\ qty' = Put(qty, uuid, [type |-> twap.type, kind |-> twap.kind,
                                     amount |-> twap.amount, filled |-> 0])
           /\ IF success
              THEN /\ CreateSucceeded(order)
                   /\ LET tw1 == [tw EXCEPT !.order_id = uuid,
                                            !.orders = Append(@, uuid)]
                          hist == Record(algo_recorded, tw.status)
                      IN  IF twap.kind = "slice"
                          THEN AfterLoop([tw1 EXCEPT !.pc = "sleep"], hist)
                          ELSE AfterLoop(LoopHead(tw1, mem_orders', qty',
                                                  uuid_to_order_id'), hist)
              ELSE /\ CreateFailed(order)
                   /\ AfterLoop([tw EXCEPT !.pc = "finish", !.status = "FAILED"],
                                Record(algo_recorded, "FAILED"))
    /\ UNCHANGED <<redisVars, sync_pc, workerVars, twap_params>>

\* the task resumes from await self._cancel_order(...) of the watched child
TwapCancelReturn(success) ==
    /\ twap.pc = "cancel_order"
    /\ ~twap.cancel
    /\ ~success => published["cancel_failed"][twap.order_id] < MaxCancelFailures
    /\ LET order == ConnectorCancelOrder(twap.order_id, success)
       IN  IF success THEN CancelSucceeded(order) ELSE CancelFailed(order)
    /\ AfterLoop(LoopHead(twap, mem_orders', qty, uuid_to_order_id),
                 algo_recorded)
    /\ UNCHANGED <<redisVars, sync_pc, registryVars, workerVars, twap_params,
                   qty>>

\* the task resumes from one of its asyncio.sleep calls
TwapWake ==
    /\ twap.pc = "sleep"
    /\ ~twap.cancel
    /\ AfterLoop(LoopHead(twap, mem_orders, qty, uuid_to_order_id),
                 algo_recorded)
    /\ UNCHANGED <<baseVars, twap_params, qty>>

\* a handler that cancels only the parent's own children
CleanupLoopChildrenOnly(tw, hist) ==
    LET todo == {u \in tw.open_orders : HasOrderId(u) /\ u # "u2"}
    IN  IF todo = {}
        THEN LET done == [tw EXCEPT !.pc = "done", !.status = "CANCELED",
                                    !.open_orders = {}, !.target = None]
             IN  /\ twap' = done
                 /\ mem_algo_orders' =
                        Put(mem_algo_orders, AlgoUuid, AlgoRecord(done))
                 /\ algo_recorded' = Record(hist, "CANCELED")
        ELSE \E u \in todo :
                /\ twap' = [tw EXCEPT !.pc = "cleanup", !.target = u,
                                      !.open_orders = todo \ {u}]
                /\ mem_algo_orders' =
                        Put(mem_algo_orders, AlgoUuid, AlgoRecord(tw))
                /\ algo_recorded' = hist

\* the for loop of the CancelledError handler from its head to the next
\* connector call, or to the statements after it: status CANCELED,
\* _order_status_update.  _cancel_order of a uuid without registry entry
\* returns without an await.
CleanupLoop(tw, hist) ==
    LET todo == {u \in tw.open_orders : HasOrderId(u)}
    IN  IF todo = {}
        THEN LET done == [tw EXCEPT !.pc = "done", !.status = "CANCELED",
                                    !.open_orders = {}, !.target = None]
             IN  /\ twap' = done
                 /\ mem_algo_orders' =
                        Put(mem_algo_orders, AlgoUuid, AlgoRecord(done))
                 /\ algo_recorded' = Record(hist, "CANCELED")
        ELSE \E u \in todo :
                /\ twap' = [tw EXCEPT !.pc = "cleanup", !.target = u,
                                      !.open_orders = todo \ {u}]
                /\ mem_algo_orders' =
                        Put(mem_algo_orders, AlgoUuid, AlgoRecord(tw))
                /\ algo_recorded' = hist

\* the task resumes with CancelledError at the await it was suspended at.
\* In the try block the handler runs: CANCELING is recorded, the open orders
\* of the symbol are read, the cancels begin.  At the await of the handler
\* itself nothing catches the exception and the task ends.  A connector
\* call that was under way is abandoned: the venue has accepted the order of
\* an abandoned create_order, or it has not.
TwapCancelled(accepted) ==
    /\ twap.cancel
    /\ twap.pc \in {"create_order", "cancel_order", "sleep", "cleanup"}
    /\ accepted => twap.pc = "create_order" /\ twap.children < MaxChildren
    /\ IF twap.pc = "cleanup"
       THEN /\ twap' = [twap EXCEPT !.pc = "cancelled", !.cancel = FALSE]
            /\ UNCHANGED <<mem_algo_orders, algo_recorded,
                           mem_symbol_open_orders>>
       ELSE LET symbol == SymbolOf(AlgoUuid)
                open_orders == GetSet(mem_symbol_open_orders, symbol)
                tw == [twap EXCEPT !.cancel = FALSE, !.status = "CANCELING",
                                   !.open_orders = open_orders,
                                   !.snapshot = open_orders,
                                   !.dropped =
                                        IF accepted
                                        THEN ChildUuids[twap.children + 1]
                                        ELSE None]
            IN  /\ mem_symbol_open_orders' =
                        Put(mem_symbol_open_orders, symbol, open_orders)
                /\ CleanupLoop(tw, Record(algo_recorded, "CANCELING"))
    /\ UNCHANGED <<mem_orders, mem_open_orders, mem_symbol_orders, redisVars,
                   sync_pc, registryVars, workerVars, published, last_status,
                   twap_params, qty>>

\* the handler resumes from await self._cancel_order(...) of an open order
TwapCleanupReturn(success) ==
    /\ twap.pc = "cleanup"
    /\ ~twap.cancel
    /\ LET order == ConnectorCancelOrder(twap.target, success)
       IN  IF success THEN CancelSucceeded(order) ELSE CancelFailed(order)
    /\ CleanupLoop(twap, algo_recorded)
    /\ UNCHANGED <<redisVars, sync_pc, registryVars, workerVars, twap_params,
                   qty>>

\* the filled quantities the venue may report with a status for an order
\* that has filled so far: a fill never shrinks and never exceeds the amount
VenueFilled(status, amount, filled) ==
    CASE status = "FILLED" -> {amount}
      [] status = "PARTIALLY_FILLED" -> {f \in 1..(amount - 1) : f > filled}
      [] OTHER -> {filled}

\* OMS: a status and filled quantity the venue pushes for a child order
TwapOmsUpdate(uuid, status, filled) ==
    /\ uuid \in DOMAIN qty
    /\ filled \in VenueFilled(status, qty[uuid].amount, qty[uuid].filled)
    /\ OmsStatusUpdate(uuid, status)
    /\ qty' = IF CheckStatusTransition([uuid |-> uuid, status |-> status])
              THEN [qty EXCEPT ![uuid].filled = filled]
              ELSE qty
    /\ UNCHANGED <<mem_algo_orders, twap, twap_params, algo_recorded>>

\* a strategy submits the TWAP envelope of the parent
SubmitTwap(a, amount, interval, min_order_amount) ==
    /\ ~twap_params.given
    /\ SubmitOrder(a, "TWAP", AlgoUuid)
    /\ twap_params' =
            [given |-> TRUE, amount |-> amount, interval |-> interval,
             min_order_amount |-> min_order_amount]
    /\ UNCHANGED <<mem_algo_orders, twap, qty, algo_recorded>>

\* a strategy submits a CANCEL_TWAP envelope for the parent it submitted
SubmitCancelTwap(a) ==
    /\ twap_params.given
    /\ SubmitOrder(a, "CANCEL_TWAP", AlgoUuid)
    /\ UNCHANGED twapVars

\* CREATE and CANCEL envelopes of a strategy, the venue's updates, the
\* periodic sync and the clock; no TWAP runs
Next ==
    \/ \E a \in AccountTypes, t \in {"CREATE", "CANCEL"}, u \in UUIDs :
            /\ submitted[a] < MaxSubmits
            /\ SubmitOrder(a, t, u)
            /\ UNCHANGED <<twapVars, posVars, calc, venue_ems>>
    \/ \E a \in AccountTypes : HandleSubmitOrder(a) /\ UNCHANGED <<posVars, calc, venue_ems>>
    \/ \E a \in AccountTypes, success \in BOOLEAN :
            CreateOrderReturn(a, success) /\ UNCHANGED <<twapVars, posVars, calc, venue_ems>>
    \/ \E a \in AccountTypes, success \in BOOLEAN :
            CancelOrderReturn(a, success) /\ UNCHANGED <<twapVars, posVars, calc, venue_ems>>
    \/ \E u \in UUIDs, s \in VenueStatus :
            OmsStatusUpdate(u, s) /\ UNCHANGED <<twapVars, posVars, calc, venue_ems>>
    \/ \E u \in UUIDs : GetOrder(u) /\ UNCHANGED <<twapVars, posVars, calc, venue_ems>>
    \/ SyncBegin /\ UNCHANGED <<taskVars, mem_spot_positions, terminal_applied, applied_last, calc, venue_ems>>
    \/ SyncFinishUnread /\ UNCHANGED <<taskVars, mem_spot_positions, terminal_applied, applied_last, calc, venue_ems>>
    \/ Tick /\ UNCHANGED <<taskVars, posVars, calc, venue_ems>>

Spec == Init /\ [][Next]_vars

\* The event loop runs a task that is ready: a worker whose queue.get() can
\* return gets its step, and a connector call that was started returns.
WorkerFairness ==
    \A a \in AccountTypes :
        /\ WF_vars(HandleSubmitOrder(a) /\ UNCHANGED <<posVars, calc, venue_ems>>)
        /\ WF_vars(\E success \in BOOLEAN :
                        CreateOrderReturn(a, success)
                            /\ UNCHANGED <<twapVars, posVars, calc, venue_ems>>)
        /\ WF_vars(\E success \in BOOLEAN :
                        CancelOrderReturn(a, success)
                            /\ UNCHANGED <<twapVars, posVars, calc, venue_ems>>)

FairSpec == Spec /\ WorkerFairness

\* the cache with the sibling order u2 of the TWAP's symbol open: the state
\* after a CREATE of u2 that succeeded
SiblingOpen ==
    LET order == ConnectorCreateOrder("u2", TRUE)
    IN  /\ mem_orders = Put(<<>>, "u2", order)
        /\ mem_open_orders = SetAdd(<<>>, ExchangeOf("u2"), "u2")
        /\ mem_symbol_orders = SetAdd(<<>>, SymbolOf("u2"), "u2")
        /\ mem_symbol_open_orders = SetAdd(<<>>, SymbolOf("u2"), "u2")
        /\ redis_orders = <<>>
        /\ redis_open_orders = <<>>
        /\ redis_symbol_orders = <<>>
        /\ sync_pc = "sleep"
        /\ uuid_to_order_id = Put(<<>>, "u2", VenueIdOf("u2"))
        /\ order_id_to_uuid = Put(<<>>, VenueIdOf("u2"), "u2")
        /\ queue = [a \in AccountTypes |-> <<>>]
        /\ pc = [a \in AccountTypes |-> "get"]
        /\ cur = [a \in AccountTypes |-> NoEnvelope]
        /\ published =
                [t \in EmsTopics |->
                    [u \in OrderUuids |->
                        IF t = "pending" /\ u = "u2" THEN 1 ELSE 0]]
        /\ submitted = [a \in AccountTypes |-> 0]
        /\ handled = [a \in AccountTypes |-> 0]
        /\ created = {"u2"}
        /\ last_status = [u \in OrderUuids |-> IF u = "u2" THEN "PENDING" ELSE None]

TwapInit ==
    \/ Init
    \/ TwapIdle /\ PosIdle /\ CalcIdle /\ VenueEmsIdle /\ SiblingOpen

TotalAmounts == 0..MaxTotalAmount
Intervals == {1, 2}
MinOrderAmounts == {1, 2}

\* one TWAP parent and its CANCEL_TWAPs on one queue, the venue's updates
\* for the children
TwapNext ==
    \/ \E a \in AccountTypes, amount \in TotalAmounts, interval \in Intervals,
          min_order_amount \in MinOrderAmounts :
            /\ submitted[a] < MaxTwapSubmits
            /\ SubmitTwap(a, amount, interval, min_order_amount)
            /\ UNCHANGED <<posVars, calc, venue_ems>>
    \/ \E a \in AccountTypes :
            /\ submitted[a] < MaxTwapSubmits
            /\ SubmitCancelTwap(a)
            /\ UNCHANGED <<posVars, calc, venue_ems>>
    \/ \E a \in AccountTypes : HandleSubmitOrder(a) /\ UNCHANGED <<posVars, calc, venue_ems>>
    \/ TwapStart /\ UNCHANGED <<posVars, calc, venue_ems>>
    \/ \E success \in BOOLEAN : TwapCreateReturn(success) /\ UNCHANGED <<posVars, calc, venue_ems>>
    \/ \E success \in BOOLEAN : TwapCancelReturn(success) /\ UNCHANGED <<posVars, calc, venue_ems>>
    \/ TwapWake /\ UNCHANGED <<posVars, calc, venue_ems>>
    \/ \E accepted \in BOOLEAN :
            TwapCancelled(accepted) /\ UNCHANGED <<posVars, calc, venue_ems>>
    \/ \E success \in BOOLEAN : TwapCleanupReturn(success) /\ UNCHANGED <<posVars, calc, venue_ems>>
    \/ \E u \in OrderUuids, s \in VenueStatus, f \in 0..MaxTotalAmount :
            TwapOmsUpdate(u, s, f) /\ UNCHANGED <<posVars, calc, venue_ems>>

TwapSpec == TwapInit /\ [][TwapNext]_vars

\* the event loop resumes a task that is ready: a cancelled task gets its
\* CancelledError, a connector call of the handler returns
TwapFairness ==
    /\ WF_vars(\E accepted \in BOOLEAN :
                    TwapCancelled(accepted)
                        /\ UNCHANGED <<posVars, calc, venue_ems>>)
    /\ WF_vars(\E success \in BOOLEAN :
                    TwapCleanupReturn(success) /\ UNCHANGED <<posVars, calc, venue_ems>>)

TwapFairSpec == TwapSpec /\ TwapFairness

\* one TWAP parent that is never cancelled, no other order on its symbol
LoopNext ==
    \/ \E a \in AccountTypes, amount \in TotalAmounts, interval \in Intervals,
          min_order_amount \in MinOrderAmounts :
            /\ submitted[a] < MaxTwapSubmits
            /\ SubmitTwap(a, amount, interval, min_order_amount)
            /\ UNCHANGED <<posVars, calc, venue_ems>>
    \/ \E a \in AccountTypes : HandleSubmitOrder(a) /\ UNCHANGED <<posVars, calc, venue_ems>>
    \/ TwapStart /\ UNCHANGED <<posVars, calc, venue_ems>>
    \/ \E success \in BOOLEAN : TwapCreateReturn(success) /\ UNCHANGED <<posVars, calc, venue_ems>>
    \/ \E success \in BOOLEAN : TwapCancelReturn(success) /\ UNCHANGED <<posVars, calc, venue_ems>>
    \/ TwapWake /\ UNCHANGED <<posVars, calc, venue_ems>>
    \/ \E u \in OrderUuids, s \in VenueStatus, f \in 0..MaxTotalAmount :
            TwapOmsUpdate(u, s, f) /\ UNCHANGED <<posVars, calc, venue_ems>>

\* the event loop runs every task that is ready, every connector call
\* returns, every sleep ends, and the venue closes every order it accepted
\* and reports it
LoopFairness ==
    /\ \A a \in AccountTypes :
            WF_vars(HandleSubmitOrder(a) /\ UNCHANGED <<posVars, calc, venue_ems>>)
    /\ WF_vars(TwapStart /\ UNCHANGED <<posVars, calc, venue_ems>>)
    /\ WF_vars(\E success \in BOOLEAN :
                    TwapCreateReturn(success)
                        /\ UNCHANGED <<posVars, calc, venue_ems>>)
    /\ WF_vars(\E success \in BOOLEAN :
                    TwapCancelReturn(success)
                        /\ UNCHANGED <<posVars, calc, venue_ems>>)
    /\ WF_vars(TwapWake /\ UNCHANGED <<posVars, calc, venue_ems>>)
    /\ \A u \in OrderUuids :
            WF_vars(\E s \in ClosedStatus \cap VenueStatus, f \in 0..MaxTotalAmount :
                        TwapOmsUpdate(u, s, f)
                            /\ UNCHANGED <<posVars, calc, venue_ems>>)

LoopSpec == Init /\ [][LoopNext]_vars /\ LoopFairness

(***************************************************************************)
(* The cache on its own: its callers (the EMS, the OMS, the connectors)    *)
(* are any sequence of calls of its methods for two orders and one         *)
(* AlgoOrder, next to the periodic sync and the clock.                     *)
(***************************************************************************)
\* the statuses the _twap_order task gives its AlgoOrder after RUNNING
AlgoNextStatus(status) ==
    CASE status = "RUNNING" -> {"FINISHED", "FAILED", "CANCELING"}
      [] status = "FAILED" -> {"FINISHED"}
      [] status = "CANCELING" -> {"CANCELED"}
      [] OTHER -> {}

\* _order_initialized(order) for a new order, PENDING
CacheOrderInitialized(uuid) ==
    /\ last_status[uuid] = None
    /\ OrderInitialized([uuid |-> uuid, status |-> "PENDING", age |-> 0])
    /\ UNCHANGED <<redisVars, sync_pc, registryVars, workerVars, published,
                   twapVars, posVars, calc, venue_ems>>

\* _order_status_update(order) for an order that was initialized
CacheOrderStatusUpdate(uuid, status) ==
    /\ last_status[uuid] # None
    /\ OrderStatusUpdate([uuid |-> uuid, status |-> status, age |-> 0])
    /\ UNCHANGED <<redisVars, sync_pc, registryVars, workerVars, published,
                   twapVars, posVars, calc, venue_ems>>

\* _order_initialized(algo_order): RUNNING, timestamp now
CacheAlgoInitialized ==
    /\ algo_recorded = <<>>
    /\ mem_algo_orders' =
            Put(mem_algo_orders, AlgoUuid,
                [status |-> "RUNNING", orders |-> <<>>, age |-> 0])
    /\ algo_recorded' = <<"RUNNING">>
    /\ UNCHANGED <<baseVars, twap, twap_params, qty, posVars, calc, venue_ems>>

\* _order_status_update(algo_order) with the object the cache holds: the
\* status is new, the timestamp is the one of its creation
CacheAlgoStatusUpdate(status) ==
    /\ AlgoUuid \in DOMAIN mem_algo_orders
    /\ status \in AlgoNextStatus(mem_algo_orders[AlgoUuid].status)
    /\ mem_algo_orders' = [mem_algo_orders EXCEPT ![AlgoUuid].status = status]
    /\ algo_recorded' = Record(algo_recorded, status)
    /\ UNCHANGED <<baseVars, twap, twap_params, qty, posVars, calc, venue_ems>>

\* a position that exists only in the external store is not modelled: the
\* symbol's SpotPosition is new when memory has none
SpotPositionOf(symbol) ==
    IF symbol \in DOMAIN mem_spot_positions THEN mem_spot_positions[symbol]
    ELSE 0

\* AsyncCache._apply_spot_position(order)
ApplySpotPosition(uuid, status) ==
    /\ applied_last' = [applied_last EXCEPT ![uuid] = status]
    /\ IF uuid \in mem_closed_orders
       THEN UNCHANGED <<mem_closed_orders, mem_spot_positions, terminal_applied>>
       ELSE /\ mem_spot_positions' =
                    Put(mem_spot_positions, SymbolOf(uuid),
                        IF status \in {"FILLED", "PARTIALLY_FILLED", "CANCELED"}
                        THEN SpotPositionOf(SymbolOf(uuid)) + 1
                        ELSE SpotPositionOf(SymbolOf(uuid)))
            /\ mem_closed_orders' =
                    IF status \in {"FILLED", "CANCELED"}
                    THEN mem_closed_orders \cup {uuid} ELSE mem_closed_orders
            /\ terminal_applied' =
                    IF status \in {"FILLED", "CANCELED"}
                    THEN terminal_applied \cup {uuid} ELSE terminal_applied
    /\ UNCHANGED <<baseVars, twapVars, calc, venue_ems>>

\* the uuid of the order the cache's callers work with
CacheUuids == {"u1"}

CacheNext ==
    \/ \E u \in CacheUuids : CacheOrderInitialized(u)
    \/ \E u \in CacheUuids, s \in OrderStatus : CacheOrderStatusUpdate(u, s)
    \/ CacheAlgoInitialized
    \/ \E s \in AlgoOrderStatus : CacheAlgoStatusUpdate(s)
    \/ \E u \in CacheUuids, s \in VenueStatus :
            /\ SpotPositionOf(SymbolOf(u)) < MaxApplies
            /\ ApplySpotPosition(u, s)
    \/ \E u \in CacheUuids : GetOrder(u) /\ UNCHANGED <<twapVars, posVars, calc, venue_ems>>
    \/ SyncBegin /\ UNCHANGED <<taskVars, mem_spot_positions, terminal_applied, applied_last, calc, venue_ems>>
    \/ SyncFinishUnread /\ UNCHANGED <<taskVars, mem_spot_positions, terminal_applied, applied_last, calc, venue_ems>>
    \/ Tick /\ UNCHANGED <<taskVars, posVars, calc, venue_ems>>

CacheSpec == Init /\ [][CacheNext]_vars

(***************************************************************************)
(* The pure methods of the EMS.  A decimal quantity is a whole number of   *)
(* units of 1 / Scale; a precision (a tick or a lot step) is a quantity.   *)
(***************************************************************************)
Scale == 10000

\* the exponent Decimal(str(precision)) has for a precision below 1, as a
\* quantity: 1000 for one decimal place, 100 for two, ...
RECURSIVE DecimalExponent(_, _)
DecimalExponent(precision, unit) ==
    IF unit = 1 \/ precision % unit = 0 THEN unit
    ELSE DecimalExponent(precision, unit \div 10)

\* what quantize(precision_decimal) * exp rounds to: multiples of
\* int(precision) for precision >= 1, the decimal places of the precision
\* below 1
Quantum(precision) ==
    IF precision >= Scale THEN (precision \div Scale) * Scale
    ELSE DecimalExponent(precision, Scale \div 10)

\* _amount_to_precision(symbol, amount, mode) on a market of the given
\* precision.amount
AmountToMarketPrecision(amount, precision, mode) ==
    AmountToPrecision(amount, Quantum(precision), mode) * Quantum(precision)

\* _price_to_precision(symbol, price, mode) on a market of the given
\* precision.price
PriceToPrecision(price, precision, mode) ==
    AmountToPrecision(price, Quantum(precision), mode) * Quantum(precision)

\* _get_min_order_amount of the venue's EMS: market.limits.amount.min is a
\* quantity, bid and ask are whole prices, so 6 / (bid + ask) is the
\* fraction 6 * Scale / (bid + ask) of a unit.  The result is the set of the
\* Decimal returned: Binance's method is `pass` and returns None.
GetMinOrderAmount(venue, bid, ask, limits_min, precision) ==
    CASE venue = "BYBIT" ->
            {Max(AmountToPrecision(6 * Scale,
                                   (bid + ask) * Quantum(precision), "ceil")
                    * Quantum(precision),
                 AmountToMarketPrecision(limits_min, precision, "ceil"))}
      [] venue = "OKX" ->
            {AmountToMarketPrecision(limits_min, precision, "ceil")}
      [] venue = "BINANCE" -> {}

\* a mutant of CalculateTwapOrdersOnMarket: a remainder below the minimum
\* is dropped
CalculateTwapOrdersDropRemainder(total_amount, duration, wait, min_order_amount, precision) ==
    IF total_amount = 0
    THEN [raised |-> FALSE, amount_list |-> <<>>,
          wait |-> [num |-> 0, den |-> 1]]
    ELSE IF total_amount < min_order_amount
    THEN [raised |-> FALSE, amount_list |-> <<min_order_amount>>,
          wait |-> [num |-> 0, den |-> 1]]
    ELSE IF duration \div wait = 0
    THEN [raised |-> TRUE, amount_list |-> <<>>, wait |-> [num |-> 0, den |-> 1]]
    ELSE LET interval == duration \div wait
             base_amount ==
                Max(min_order_amount,
                    AmountToPrecision(total_amount,
                                      interval * Quantum(precision), "round")
                        * Quantum(precision))
             n == total_amount \div base_amount
             remaining == total_amount - n * base_amount
         IN  IF remaining < min_order_amount
             THEN [raised |-> FALSE,
                   amount_list |-> [i \in 1..n |-> base_amount],
                   wait |-> [num |-> duration, den |-> n]]
             ELSE [raised |-> FALSE,
                   amount_list |-> [i \in 1..n |-> base_amount] \o <<remaining>>,
                   wait |-> [num |-> duration, den |-> n + 1]]

\* _calculate_twap_orders on a market of the given precision.amount: the
\* slice list and the wait (the fraction num / den); with duration // wait
\* = 0 the division of line 218 raises ZeroDivisionError
CalculateTwapOrdersOnMarket(total_amount, duration, wait, min_order_amount, precision) ==
    IF total_amount = 0
    THEN [raised |-> FALSE, amount_list |-> <<>>,
          wait |-> [num |-> 0, den |-> 1]]
    ELSE IF total_amount < min_order_amount
    THEN [raised |-> FALSE, amount_list |-> <<min_order_amount>>,
          wait |-> [num |-> 0, den |-> 1]]
    ELSE IF duration \div wait = 0
    THEN [raised |-> TRUE, amount_list |-> <<>>, wait |-> [num |-> 0, den |-> 1]]
    ELSE LET interval == duration \div wait
             base_amount ==
                Max(min_order_amount,
                    AmountToPrecision(total_amount,
                                      interval * Quantum(precision), "round")
                        * Quantum(precision))
             n == total_amount \div base_amount
             remaining == total_amount - n * base_amount
             amount_list ==
                IF remaining < min_order_amount
                THEN [i \in 1..n |->
                        IF i = n THEN base_amount + remaining
                        ELSE base_amount]
                ELSE [i \in 1..n |-> base_amount] \o <<remaining>>
         IN  [raised |-> FALSE, amount_list |-> amount_list,
              wait |-> [num |-> duration, den |-> Len(amount_list)]]

\* `book.ask - book.bid > basis_point`: bid, ask and the tick are floats
\* (BookL1 is built with float(...)), so the difference carries a rounding
\* error far below one unit, of sign spread_error; it decides the comparison
\* when the exact difference is the tick itself (1.1 - 1.0 > 0.1 is True)
SpreadAboveTick(bid, ask, basis_point, spread_error) ==
    \/ ask - bid > basis_point
    \/ ask - bid = basis_point /\ spread_error > 0

\* _cal_limit_order_price for a book of the given bid and ask on a market of
\* precision.price = basis_point; the rounding error of bid + basis_point
\* and ask - basis_point is removed by _price_to_precision
CalLimitOrderPrice(side, bid, ask, basis_point, spread_error) ==
    PriceToPrecision(
        IF side = "BUY"
        THEN IF SpreadAboveTick(bid, ask, basis_point, spread_error)
             THEN bid + basis_point ELSE bid
        ELSE IF SpreadAboveTick(bid, ask, basis_point, spread_error)
             THEN ask - basis_point ELSE ask,
        basis_point, "round")

(***************************************************************************)
(* The pure methods called on their own: a call is drawn with its          *)
(* arguments, then the method is applied to them.  Amounts and prices are  *)
(* quantities; the books are on the tick grid.                             *)
(***************************************************************************)
MaxQuarterSteps == 12
MaxTicks == 4
MaxCalcAmount == 60

\* precisions 0.001, 0.1, 0.5, 1 and 10
Precisions == {10, 1000, 5000, Scale, 10 * Scale}
Modes == {"round", "ceil", "floor"}
Venues == {"BYBIT", "OKX", "BINANCE"}
Sides == {"BUY", "SELL"}
BookPrices == {1, 2, 4}
LimitsMins == {10, 5000, Scale}

\* values on the quarter-step grid of the precision
PrecisionCalls ==
    [op : {"amount_to_precision", "price_to_precision"},
     value : UNION {{(k * p) \div 4 : k \in 0..MaxQuarterSteps} : p \in Precisions},
     precision : Precisions, mode : Modes, returned : {FALSE}, result : {None}]

MinOrderAmountCalls ==
    {c \in [op : {"get_min_order_amount"}, venue : Venues, bid : BookPrices,
            ask : BookPrices, limits_min : LimitsMins,
            precision : Precisions, returned : {FALSE}, result : {None}] : c.bid < c.ask}

\* amounts in steps of half a lot of 0.001
TwapOrdersCalls ==
    [op : {"calculate_twap_orders"},
     total_amount : {5 * k : k \in 0..(MaxCalcAmount \div 5)},
     duration : 1..3, wait : 1..2, min_order_amount : {10, 20},
     precision : {10}, returned : {FALSE}, result : {None}]

\* the sign of (ask - bid) - tick in double arithmetic for a book one tick
\* wide: 0.3 - 0.2 < 0.1 < 0.4 - 0.3, and 0.5 - 0.4 < 0.1; the other books
\* drawn give the tick exactly
SpreadError(basis_point, bid_ticks, ask_ticks) ==
    IF basis_point = 1000 /\ ask_ticks = bid_ticks + 1
    THEN CASE bid_ticks = 2 -> -1
           [] bid_ticks = 3 -> 1
           [] bid_ticks = 4 -> -1
           [] OTHER -> 0
    ELSE 0

LimitOrderPriceCalls ==
    {c \in [op : {"cal_limit_order_price"}, side : Sides,
            basis_point : Precisions, bid_ticks : 1..MaxTicks,
            ask_ticks : 1..MaxTicks, spread_error : {-1, 0, 1},
            returned : {FALSE}, result : {None}] :
        /\ c.bid_ticks <= c.ask_ticks
        /\ c.spread_error = SpreadError(c.basis_point, c.bid_ticks, c.ask_ticks)}

CalcInit ==
    /\ TwapIdle
    /\ PosIdle
    /\ VenueEmsIdle
    /\ BaseIdle
    /\ calc \in PrecisionCalls \cup MinOrderAmountCalls \cup TwapOrdersCalls
                \cup LimitOrderPriceCalls

CallAmountToPrecision ==
    /\ calc.op = "amount_to_precision"
    /\ ~calc.returned
    /\ calc' = [calc EXCEPT !.returned = TRUE, !.result =
                    AmountToMarketPrecision(calc.value, calc.precision, calc.mode)]
    /\ UNCHANGED <<baseVars, twapVars, posVars, venue_ems>>

CallPriceToPrecision ==
    /\ calc.op = "price_to_precision"
    /\ ~calc.returned
    /\ calc' = [calc EXCEPT !.returned = TRUE, !.result =
                    PriceToPrecision(calc.value, calc.precision, calc.mode)]
    /\ UNCHANGED <<baseVars, twapVars, posVars, venue_ems>>

CallGetMinOrderAmount ==
    /\ calc.op = "get_min_order_amount"
    /\ ~calc.returned
    /\ calc' = [calc EXCEPT !.returned = TRUE, !.result =
                    GetMinOrderAmount(calc.venue, calc.bid, calc.ask,
                                      calc.limits_min, calc.precision)]
    /\ UNCHANGED <<baseVars, twapVars, posVars, venue_ems>>

CallCalculateTwapOrders ==
    /\ calc.op = "calculate_twap_orders"
    /\ ~calc.returned
    /\ calc' = [calc EXCEPT !.returned = TRUE, !.result =
                    CalculateTwapOrdersOnMarket(
                        calc.total_amount, calc.duration, calc.wait,
                        calc.min_order_amount, calc.precision)]
    /\ UNCHANGED <<baseVars, twapVars, posVars, venue_ems>>

CallCalLimitOrderPrice ==
    /\ calc.op = "cal_limit_order_price"
    /\ ~calc.returned
    /\ calc' = [calc EXCEPT !.returned = TRUE, !.result =
                    CalLimitOrderPrice(calc.side,
                                       calc.bid_ticks * calc.basis_point,
                                       calc.ask_ticks * calc.basis_point,
                                       calc.basis_point, calc.spread_error)]
    /\ UNCHANGED <<baseVars, twapVars, posVars, venue_ems>>

CalcNext ==
    \/ CallAmountToPrecision
    \/ CallPriceToPrecision
    \/ CallGetMinOrderAmount
    \/ CallCalculateTwapOrders
    \/ CallCalLimitOrderPrice

CalcSpec == CalcInit /\ [][CalcNext]_vars

(***************************************************************************)
(* The periodic sync next to callers that touch the cache only between two *)
(* passes: orders u1 and u2 on one exchange, the clock, no order tasks.    *)
(***************************************************************************)
SyncNext ==
    \/ \E u \in UUIDs : sync_pc = "sleep" /\ CacheOrderInitialized(u)
    \/ \E u \in UUIDs, s \in VenueStatus :
            sync_pc = "sleep" /\ CacheOrderStatusUpdate(u, s)
    \/ SyncBegin /\ UNCHANGED <<taskVars, mem_spot_positions, terminal_applied, applied_last, calc, venue_ems>>
    \/ SyncFinish /\ UNCHANGED <<taskVars, mem_spot_positions, terminal_applied, applied_last, calc, venue_ems>>
    \/ Tick /\ UNCHANGED <<taskVars, posVars, calc, venue_ems>>

SyncSpec == Init /\ [][SyncNext]_vars

(***************************************************************************)
(* Venue EMS: _build_order_submit_queues, _set_account_type, _submit_order *)
(***************************************************************************)
\* self._private_connectors.keys()
Keys(connectors) == {connectors[i] : i \in 1..Len(connectors)}

\* the sequences of distinct account types of the venue, the dicts of
\* private connectors an EMS can be built with
ConnectorDicts(venue) ==
    UNION {{c \in [1..n -> VenueAccountTypes(venue)] :
                \A i, j \in 1..n : i # j => c[i] # c[j]} : n \in 1..MaxConnectors}

\* for account_type in priority: if account_type in account_types: ... break
FirstRegistered(priority, account_types) ==
    LET hits == {i \in 1..Len(priority) : priority[i] \in account_types}
    IN  IF hits = {} THEN None
        ELSE priority[CHOOSE i \in hits : \A j \in hits : i <= j]

\* _build_order_submit_queues: the account types that get a queue.  The
\* loop of OKX breaks after the first key.
BuildOrderSubmitQueues(venue, connectors) ==
    IF venue = "OKX" THEN {connectors[1]} ELSE Keys(connectors)

\* a mutant of SetAccountType: the default is the account type registered
\* first
SetAccountTypeFirstRegistered(venue, connectors) ==
    IF venue = "BINANCE"
    THEN [NoAccountTypes EXCEPT !.spot = connectors[1],
                                !.linear = connectors[1],
                                !.inverse = connectors[1]]
    ELSE [NoAccountTypes EXCEPT !.default = connectors[1]]

\* _set_account_type
SetAccountType(venue, connectors) ==
    LET account_types == Keys(connectors)
    IN  CASE venue = "OKX" ->
                [NoAccountTypes EXCEPT !.default =
                    FirstRegistered(OKX_ACCOUNT_TYPE_PRIORITY, account_types)]
          [] venue = "BYBIT" ->
                [NoAccountTypes EXCEPT !.default =
                    IF "UNIFIED_TESTNET" \in account_types
                    THEN "UNIFIED_TESTNET" ELSE "UNIFIED"]
          [] venue = "BINANCE" ->
                IF "PORTFOLIO_MARGIN" \in account_types
                THEN [NoAccountTypes EXCEPT !.pm = "PORTFOLIO_MARGIN"]
                ELSE [NoAccountTypes EXCEPT
                        !.spot = FirstRegistered(BINANCE_SPOT_PRIORITY,
                                                 account_types),
                        !.linear =
                            IF "USD_M_FUTURE_TESTNET" \in account_types
                            THEN "USD_M_FUTURE_TESTNET" ELSE "USD_M_FUTURE",
                        !.inverse =
                            IF "COIN_M_FUTURE_TESTNET" \in account_types
                            THEN "COIN_M_FUTURE_TESTNET" ELSE "COIN_M_FUTURE"]

\* BinanceExecutionManagementSystem._instrument_id_to_account_type
InstrumentIdToAccountType(fields, kind) ==
    IF fields.pm # None THEN fields.pm
    ELSE CASE kind = "spot" -> fields.spot
           [] kind = "linear" -> fields.linear
           [] kind = "inverse" -> fields.inverse

\* _submit_order: if not account_type: account_type = ...
ResolveAccountType(ems, kind, account_type) ==
    IF account_type # None THEN account_type
    ELSE IF ems.venue = "BINANCE"
         THEN InstrumentIdToAccountType(ems.account_type, kind)
         ELSE ems.account_type.default

\* ExecutionManagementSystem._build
Build(connectors) ==
    /\ venue_ems.venue # None
    /\ ~venue_ems.built
    /\ venue_ems' =
            [venue_ems EXCEPT
                !.built = TRUE,
                !.private_connectors = connectors,
                !.order_submit_queues =
                    [a \in BuildOrderSubmitQueues(venue_ems.venue, connectors)
                        |-> <<>>],
                !.account_type = SetAccountType(venue_ems.venue, connectors)]
    /\ UNCHANGED <<baseVars, twapVars, posVars, calc>>

\* _submit_order(order, account_type): put_nowait on the queue of the
\* resolved account type; subscripting _order_submit_queues with a key it
\* does not have raises KeyError (rejected keeps the envelopes it was
\* raised for)
VenueSubmitOrder(kind, account_type) ==
    /\ venue_ems.built
    /\ ~venue_ems.raised
    /\ venue_ems.routed < MaxRouted
    /\ LET resolved == ResolveAccountType(venue_ems, kind, account_type)
           order == [kind |-> kind, account_type |-> account_type]
       IN  IF resolved \in DOMAIN venue_ems.order_submit_queues
           THEN venue_ems' =
                    [venue_ems EXCEPT
                        !.routed = @ + 1,
                        !.order_submit_queues[resolved] = Append(@, order)]
           ELSE venue_ems' =
                    [venue_ems EXCEPT !.routed = @ + 1, !.raised = TRUE,
                                      !.rejected = Append(@, order)]
    /\ UNCHANGED <<baseVars, twapVars, posVars, calc>>

RouteInit ==
    /\ TwapIdle
    /\ PosIdle
    /\ CalcIdle
    /\ BaseIdle
    /\ venue_ems \in {NewVenueEms(venue) : venue \in Venues}

\* one EMS is built with the connectors of its venue and given envelopes,
\* with an explicit account type that is registered or with none
RouteNext ==
    \/ \E connectors \in ConnectorDicts(venue_ems.venue) : Build(connectors)
    \/ \E kind \in InstrumentKinds,
          account_type \in Keys(venue_ems.private_connectors) \cup {None} :
            VenueSubmitOrder(kind, account_type)

RouteSpec == RouteInit /\ [][RouteNext]_vars

(***************************************************************************)
(* Notions the properties share.                                           *)
(***************************************************************************)
\* uuid is in open_orders[order.exchange]
InOpenOrders(uuid) == uuid \in GetSet(mem_open_orders, ExchangeOf(uuid))

\* uuid is in symbol_open_orders[order.symbol]
InSymbolOpenOrders(uuid) ==
    uuid \in GetSet(mem_symbol_open_orders, SymbolOf(uuid))

\* uuid is in symbol_orders[order.symbol]: it went through
\* _order_initialized and has not been evicted since
InSymbolOrders(uuid) == uuid \in GetSet(mem_symbol_orders, SymbolOf(uuid))

\* the cached status of uuid is s
HasStatus(uuid, s) == uuid \in DOMAIN mem_orders /\ mem_orders[uuid].status = s

\* this step is a call of _order_initialized or _order_status_update with an
\* order of uuid u and status s
CacheCall(u, s) ==
    \/ OmsStatusUpdate(u, s)
    \/ \E a \in AccountTypes :
          /\ cur[a].uuid = u
          /\ \/ s = "PENDING" /\ CreateOrderReturn(a, TRUE)
             \/ s = "FAILED" /\ CreateOrderReturn(a, FALSE)
             \/ s = "CANCELING" /\ CancelOrderReturn(a, TRUE)

(***************************************************************************)
(* C1.  Over any sequence of _order_initialized, _order_status_update,     *)
(* get_order, sync and eviction, every change of the status the cache has  *)
(* committed for a uuid is a pair (prev, next) of the transition table; in *)
(* particular, once a closed status is committed no other status is.       *)
(***************************************************************************)
C1_CommittedTransitionLegal ==
    [][\A u \in UUIDs :
          (last_status[u] # None /\ last_status'[u] # last_status[u])
          => last_status'[u] \in STATUS_TRANSITIONS(last_status[u])
      ]_vars

\* What _check_status_transition does enforce: between two statuses of a
\* record that stays in memory the pair is one of the table.
InMemoryTransitionLegal ==
    [][\A u \in UUIDs :
          (/\ u \in DOMAIN mem_orders
           /\ u \in DOMAIN mem_orders'
           /\ mem_orders'[u].status # mem_orders[u].status)
          => mem_orders'[u].status \in STATUS_TRANSITIONS(mem_orders[u].status)
      ]_vars

(***************************************************************************)
(* C2.  A call of _order_status_update or _order_initialized whose         *)
(* (cached status, new status) pair is not in the table changes nothing in *)
(* the cache: orders, open_orders, symbol_open_orders and symbol_orders    *)
(* stay as they are.                                                       *)
(***************************************************************************)
C2_IllegalUpdateDropped ==
    [][\/ UNCHANGED cacheVars
       \/ \A u \in UUIDs, s \in OrderStatus :
            ~(/\ u \in DOMAIN mem_orders
              /\ s \notin STATUS_TRANSITIONS(mem_orders[u].status)
              /\ CacheCall(u, s))
      ]_vars

\* CREATE succeeded, CANCEL succeeded, the venue canceled: the record is
\* CANCELED, and the venue's late FILLED for it leaves this state as it is
C2_Witness ==
    \E u \in UUIDs :
        /\ HasStatus(u, "CANCELED")
        /\ InSymbolOrders(u)
        /\ published["pending"][u] = 1
        /\ published["canceling"][u] = 1
        /\ GetUuid(VenueIdOf(u)) = u
        /\ "FILLED" \notin STATUS_TRANSITIONS(mem_orders[u].status)

(***************************************************************************)
(* C3.  For every order in memory, its uuid is in open_orders[exchange]    *)
(* and in symbol_open_orders[symbol] exactly if its status is not closed.  *)
(***************************************************************************)
C3_OpenSetsAgreeWithIsClosed ==
    \A u \in DOMAIN mem_orders :
        /\ InOpenOrders(u) <=> ~IsClosed(mem_orders[u].status)
        /\ InSymbolOpenOrders(u) <=> ~IsClosed(mem_orders[u].status)

(***************************************************************************)
(* C4.  Every uuid of an open_orders[exchange] set and of a                *)
(* symbol_open_orders[symbol] set is a key of the orders map.              *)
(***************************************************************************)
C4_OpenSetsSubsetOfOrders ==
    /\ \A e \in DOMAIN mem_open_orders : mem_open_orders[e] \subseteq DOMAIN mem_orders
    /\ \A sym \in DOMAIN mem_symbol_open_orders :
            mem_symbol_open_orders[sym] \subseteq DOMAIN mem_orders

(***************************************************************************)
(* C5.  When create_order returns success for the CREATE envelope of uuid: *)
(* the registry maps uuid to the venue id and the venue id to uuid, the    *)
(* cache holds the order as PENDING with uuid in both open sets, pending   *)
(* has been published once and failed not at all.                          *)
(***************************************************************************)
C5_CreateSuccess ==
    [][\A a \in AccountTypes :
          CreateOrderReturn(a, TRUE) =>
            LET u == cur[a].uuid
            IN  /\ u \in DOMAIN uuid_to_order_id'
                /\ uuid_to_order_id'[u] = VenueIdOf(u)
                /\ VenueIdOf(u) \in DOMAIN order_id_to_uuid'
                /\ order_id_to_uuid'[VenueIdOf(u)] = u
                /\ u \in DOMAIN mem_orders'
                /\ mem_orders'[u].status = "PENDING"
                /\ u \in GetSet(mem_open_orders', ExchangeOf(u))
                /\ u \in GetSet(mem_symbol_open_orders', SymbolOf(u))
                /\ published["pending"][u] = 0
                /\ published'["pending"][u] = 1
                /\ published'["failed"][u] = 0
      ]_vars

C5_Witness ==
    \E u \in UUIDs :
        /\ GetOrderId(u) = VenueIdOf(u)
        /\ GetUuid(VenueIdOf(u)) = u
        /\ HasStatus(u, "PENDING")
        /\ InOpenOrders(u)
        /\ InSymbolOpenOrders(u)
        /\ published["pending"][u] = 1

(***************************************************************************)
(* C6.  When create_order returns failure for the CREATE envelope of uuid: *)
(* the cache holds the order as FAILED, uuid is in neither open set, the   *)
(* registry has no mapping for it, failed has been published once and      *)
(* pending not at all.                                                     *)
(***************************************************************************)
C6_CreateFailure ==
    [][\A a \in AccountTypes :
          CreateOrderReturn(a, FALSE) =>
            LET u == cur[a].uuid
            IN  /\ u \in DOMAIN mem_orders'
                /\ mem_orders'[u].status = "FAILED"
                /\ u \notin GetSet(mem_open_orders', ExchangeOf(u))
                /\ u \notin GetSet(mem_symbol_open_orders', SymbolOf(u))
                /\ u \notin DOMAIN uuid_to_order_id'
                /\ VenueIdOf(u) \notin DOMAIN order_id_to_uuid'
                /\ published["failed"][u] = 0
                /\ published'["failed"][u] = 1
                /\ published'["pending"][u] = 0
      ]_vars

C6_Witness ==
    \E u \in UUIDs :
        /\ HasStatus(u, "FAILED")
        /\ GetOrderId(u) = None
        /\ published["failed"][u] = 1
        /\ published["pending"][u] = 0

(***************************************************************************)
(* C7, as the code has it.  When cancel_order returns success for a CANCEL *)
(* of uuid, canceling is published exactly once and nothing else is; the   *)
(* cached order becomes CANCELING if the cache holds no record of uuid or  *)
(* the table allows CANCELING after the cached status, and otherwise the   *)
(* cache is left as it is; the step leaves both open sets as they are, and *)
(* a uuid leaves an open set only when a closed status is committed.       *)
(***************************************************************************)
C7_CancelSuccess ==
    [][/\ \A a \in AccountTypes :
            CancelOrderReturn(a, TRUE) =>
              LET u == cur[a].uuid
              IN  /\ published' = [published EXCEPT !["canceling"][u] = @ + 1]
                  /\ IF \/ u \notin DOMAIN mem_orders
                        \/ "CANCELING" \in STATUS_TRANSITIONS(mem_orders[u].status)
                     THEN /\ u \in DOMAIN mem_orders'
                          /\ mem_orders'[u].status = "CANCELING"
                     ELSE UNCHANGED mem_orders
                  /\ UNCHANGED <<mem_open_orders, mem_symbol_open_orders,
                                 mem_symbol_orders>>
       /\ \A u \in UUIDs :
            (\/ InOpenOrders(u) /\ u \notin GetSet(mem_open_orders', ExchangeOf(u))
             \/ InSymbolOpenOrders(u)
                    /\ u \notin GetSet(mem_symbol_open_orders', SymbolOf(u)))
            => u \in DOMAIN mem_orders' /\ IsClosed(mem_orders'[u].status)
      ]_vars

C7_Witness ==
    \E u \in UUIDs :
        /\ HasStatus(u, "CANCELING")
        /\ published["canceling"][u] = 1
        /\ InOpenOrders(u)
        /\ InSymbolOpenOrders(u)

\* C7 as the specification words it: after a successful cancel the cached
\* order is CANCELING and canceling has been published once more
C7_CancelSuccessIsCanceling ==
    [][\A a \in AccountTypes :
          CancelOrderReturn(a, TRUE) =>
            LET u == cur[a].uuid
            IN  /\ u \in DOMAIN mem_orders'
                /\ mem_orders'[u].status = "CANCELING"
                /\ published'["canceling"][u] = published["canceling"][u] + 1
      ]_vars

(***************************************************************************)
(* C8.  The handling of a CANCEL whose cancel_order returns failure        *)
(* publishes cancel_failed exactly once and nothing else, and neither of   *)
(* its steps (the registry lookup that starts the call, the return)        *)
(* changes the orders map, the open sets or the registry.                  *)
(***************************************************************************)
C8_CancelFailure ==
    [][\A a \in AccountTypes :
          /\ CancelOrderReturn(a, FALSE) =>
                /\ UNCHANGED <<cacheVars, registryVars>>
                /\ published' =
                        [published EXCEPT !["cancel_failed"][cur[a].uuid] = @ + 1]
          /\ (pc[a] = "get" /\ pc'[a] = "cancel_order") =>
                UNCHANGED <<cacheVars, registryVars, published>>
      ]_vars

\* a cancel of a PENDING order has failed: the order is PENDING and open
C8_Witness ==
    \E u \in UUIDs :
        /\ published["cancel_failed"][u] = 1
        /\ published["canceling"][u] = 0
        /\ HasStatus(u, "PENDING")
        /\ InOpenOrders(u)
        /\ GetOrderId(u) = VenueIdOf(u)

(***************************************************************************)
(* C9.  The worker's handling of a CANCEL of a uuid without a registry     *)
(* entry is one step: no connector call is started, nothing is published,  *)
(* cache, external store and registry are unchanged, and the worker is     *)
(* back at queue.get() with the rest of the queue before it.               *)
(***************************************************************************)
C9_CancelUnknownUuid ==
    [][\A a \in AccountTypes :
          (/\ HandleSubmitOrder(a)
           /\ Head(queue[a]).submit_type = "CANCEL"
           /\ GetOrderId(Head(queue[a]).uuid) = None)
          => /\ pc'[a] = "get"
             /\ cur'[a] = NoEnvelope
             /\ queue'[a] = Tail(queue[a])
             /\ handled'[a] = handled[a] + 1
             /\ UNCHANGED <<cacheVars, redisVars, registryVars, published>>
      ]_vars

\* two CANCELs of unknown uuids have been handled, one after the other
C9_Witness ==
    \E a \in AccountTypes :
        /\ handled[a] = 2
        /\ created = {}
        /\ pc[a] = "get"
        /\ \A t \in EmsTopics, u \in UUIDs : published[t][u] = 0

(***************************************************************************)
(* C10.  On one queue the envelopes are dispatched in the order they were  *)
(* submitted, one at a time: while the connector call of the n-th envelope *)
(* is in flight the n-1 envelopes before it have been handled to the end,  *)
(* and the envelopes behind it wait in submission order.                   *)
(***************************************************************************)
C10_FifoDispatch ==
    \A a \in AccountTypes :
        LET busy == IF pc[a] = "get" THEN 0 ELSE 1
        IN  /\ pc[a] # "get" => cur[a].seq = handled[a] + 1
            /\ \A i \in 1..Len(queue[a]) :
                    queue[a][i].seq = handled[a] + busy + i

\* the first envelope's connector call is in flight, the second one waits
C10_Witness ==
    \E a \in AccountTypes :
        /\ pc[a] # "get"
        /\ cur[a].seq = 1
        /\ Len(queue[a]) = 1
        /\ queue[a][1].seq = 2

(***************************************************************************)
(* C11.  A per-order failure does not stop the worker: after a CREATE that *)
(* fails, a CANCEL that fails and a CANCEL of a uuid without registry      *)
(* entry the worker is back at queue.get(); and, connector calls           *)
(* returning, every envelope put on a queue is eventually handled.         *)
(***************************************************************************)
C11_WorkerKeepsConsuming ==
    /\ [][\A a \in AccountTypes :
            (\/ CreateOrderReturn(a, FALSE)
             \/ CancelOrderReturn(a, FALSE)
             \/ /\ HandleSubmitOrder(a)
                /\ Head(queue[a]).submit_type = "CANCEL"
                /\ ~HasOrderId(Head(queue[a]).uuid))
            => pc'[a] = "get"
        ]_vars
    /\ \A a \in AccountTypes, n \in 1..MaxSubmits :
            (submitted[a] >= n) ~> (handled[a] >= n)

\* a CREATE failed and the envelope behind it has been handled as well
C11_Witness ==
    \E a \in AccountTypes, u \in UUIDs :
        /\ published["failed"][u] = 1
        /\ handled[a] = 2
        /\ pc[a] = "get"
        /\ queue[a] = <<>>

\* ---------------------------------------------------------------------
\* C12: once a child submission of the TWAP has failed, the status the
\* cache holds for the parent is FAILED and stays FAILED: FAILED is the last
\* status recorded, no FINISHED follows it.
Children == {ChildUuids[i] : i \in 1..MaxChildren}

ChildSubmissionFailed == \E c \in Children : published["failed"][c] > 0

C12_FailedIsFinal ==
    ChildSubmissionFailed =>
        /\ algo_recorded # <<>>
        /\ algo_recorded[Len(algo_recorded)] = "FAILED"
        /\ AlgoUuid \in DOMAIN mem_algo_orders
        /\ mem_algo_orders[AlgoUuid].status = "FAILED"

\* a child submission failed and the task has ended
C12_Witness ==
    /\ ChildSubmissionFailed
    /\ twap.pc = "done"

\* ---------------------------------------------------------------------
\* C13: whenever the parent is FINISHED, no slice is left in the slice list
\* and the child submitted last is closed in the cache.
LastChild == twap.orders[Len(twap.orders)]

LastChildClosed ==
    twap.orders # <<>> =>
        /\ LastChild \in DOMAIN mem_orders
        /\ IsClosed(mem_orders[LastChild].status)

C13_FinishedAfterLastChildClosed ==
    twap.status = "FINISHED" =>
        /\ twap.amount_list = <<>>
        /\ LastChildClosed

\* the parent is FINISHED after a run in which every submission succeeded
C13_Witness ==
    /\ twap.status = "FINISHED"
    /\ twap.orders # <<>>
    /\ ~ChildSubmissionFailed

\* ---------------------------------------------------------------------
\* C14: when the parent is FINISHED, the filled quantities of its children
\* add up to the parent's amount, within one lot.  (Nothing is folded at
\* that point: a folded remainder is part of a later child's amount.)
RECURSIVE FilledSum(_)
FilledSum(orders) ==
    IF orders = <<>> THEN 0
    ELSE qty[orders[1]].filled + FilledSum(SubSeq(orders, 2, Len(orders)))

ChildrenFilled == FilledSum(twap.orders)

C14_FinishedFilledEqualsAmount ==
    twap.status = "FINISHED" =>
        /\ ChildrenFilled >= twap_params.amount - 1
        /\ ChildrenFilled <= twap_params.amount + 1

\* the parent is FINISHED and its children have filled the whole amount
C14_Witness ==
    /\ twap.status = "FINISHED"
    /\ twap_params.amount > 1
    /\ ChildrenFilled = twap_params.amount

\* ---------------------------------------------------------------------
\* C15: at every point of a TWAP run the filled quantities of the parent's
\* children add up to at most the parent's amount, whatever the amount is
\* (also below min_order_amount) and however the venue fills each child
\* within that child's amount.
C15_FilledNeverExceedsAmount ==
    twap_params.given => ChildrenFilled <= twap_params.amount

\* a parent below min_order_amount whose child has filled
C15_Witness ==
    /\ twap_params.given
    /\ twap_params.amount > 0
    /\ twap_params.amount < twap_params.min_order_amount
    /\ ChildrenFilled > 0

\* ---------------------------------------------------------------------
\* C16: when a running TWAP task receives its cancellation, CANCELING is
\* recorded for the parent and the open orders of the parent's symbol at
\* that moment are the orders to cancel; CANCELED is recorded only directly
\* after CANCELING, and only when a cancel has been issued for every one of
\* those orders, children or not; from CANCELING the handler reaches
\* CANCELED whether the cancels succeed or fail, unless a further
\* cancellation ends the handler (C17).
CancelDelivered ==
    /\ twap.cancel
    /\ twap.pc \in {"create_order", "cancel_order", "sleep"}
    /\ ~twap'.cancel

CancelIssued(uuid) ==
    published["canceling"][uuid] + published["cancel_failed"][uuid] > 0

C16_CancelingThenCanceled ==
    /\ [][CancelDelivered =>
            /\ twap'.snapshot = GetSet(mem_symbol_open_orders, SymbolOf(AlgoUuid))
            /\ \E i \in 1..Len(algo_recorded') :
                    /\ i > Len(algo_recorded)
                    /\ algo_recorded'[i] = "CANCELING"
            /\ twap'.status = "CANCELED" => twap'.snapshot = {}]_vars
    /\ [](\A i \in 1..Len(algo_recorded) :
            algo_recorded[i] = "CANCELED" =>
                i > 1 /\ algo_recorded[i - 1] = "CANCELING")
    /\ [](twap.status = "CANCELED" =>
            /\ mem_algo_orders[AlgoUuid].status = "CANCELED"
            /\ \A u \in twap.snapshot : CancelIssued(u))
    /\ (twap.status = "CANCELING"
            ~> (twap.status = "CANCELED" \/ twap.pc = "cancelled"))

\* the parent is CANCELED after a cleanup of two open orders, one of them
\* the sibling u2, in which the cancel of u2 failed
C16_Witness ==
    /\ twap.status = "CANCELED"
    /\ "u2" \in twap.snapshot
    /\ Cardinality(twap.snapshot) > 1
    /\ published["cancel_failed"]["u2"] > 0

\* ---------------------------------------------------------------------
\* C17: a cancellation that reaches the task while the handler is cancelling
\* the open orders does not end the handler: as long as the parent is
\* CANCELING the handler is at one of its cancels, with every order of the
\* copy either cancelled already or still to come, so that the task ends
\* only with the parent CANCELED.
C17_CleanupSurvivesSecondCancel ==
    twap.status = "CANCELING" =>
        /\ twap.pc = "cleanup"
        /\ \A u \in twap.snapshot :
                CancelIssued(u) \/ u = twap.target \/ u \in twap.open_orders

\* a second CANCEL_TWAP has been dispatched while the handler awaits a cancel
C17_Witness ==
    /\ twap.status = "CANCELING"
    /\ twap.pc = "cleanup"
    /\ twap.cancel

\* ---------------------------------------------------------------------
\* C18: a record leaves memory only when it is older than expire_time and
\* its status is terminal: an Order that is not closed and an AlgoOrder that
\* is RUNNING or CANCELING stay, whatever their age.
AlgoTerminal(status) == status \in {"FINISHED", "CANCELED", "FAILED"}

C18_EvictsOnlyOldTerminal ==
    [][/\ \A u \in UUIDs :
            (u \in DOMAIN mem_orders /\ u \notin DOMAIN mem_orders') =>
                /\ mem_orders[u].age > ExpireTime
                /\ IsClosed(mem_orders[u].status)
       /\ (/\ AlgoUuid \in DOMAIN mem_algo_orders
           /\ AlgoUuid \notin DOMAIN mem_algo_orders') =>
                /\ mem_algo_orders[AlgoUuid].age > ExpireTime
                /\ AlgoTerminal(mem_algo_orders[AlgoUuid].status)
      ]_vars

\* an old closed order and an old finished AlgoOrder have left memory
C18_Witness ==
    /\ last_status["u1"] \in ClosedStatus
    /\ "u1" \notin DOMAIN mem_orders
    /\ algo_recorded # <<>>
    /\ algo_recorded[Len(algo_recorded)] = "FINISHED"
    /\ AlgoUuid \notin DOMAIN mem_algo_orders

\* ---------------------------------------------------------------------
\* C20: once _apply_spot_position has applied a FILLED or CANCELED order of
\* a uuid, every later _apply_spot_position call for that uuid, with the
\* same or another status, leaves the positions as they are, whatever
\* syncs and evictions came between the two calls.
C20_TerminalAppliedOnce ==
    [][\A u \in CacheUuids, s \in OrderStatus :
          (u \in terminal_applied /\ ApplySpotPosition(u, s))
          => UNCHANGED mem_spot_positions
      ]_vars

\* a terminal status was applied and the order has since left memory
C20_Witness ==
    /\ "u1" \in terminal_applied
    /\ "u1" \notin DOMAIN mem_orders
    /\ SpotPositionOf(SymbolOf("u1")) = 1

\* ---------------------------------------------------------------------
\* C19: for every order the periodic task has evicted, get_order finds in
\* the external store a record equal to the last one memory held for the
\* uuid, returns it and puts it back into memory; this also when the order
\* was inserted or updated while the preceding sync was at its awaits.
Evicted(uuid) == last_status[uuid] # None /\ uuid \notin DOMAIN mem_orders

C19_EvictionRoundTrip ==
    /\ [](\A u \in UUIDs :
            Evicted(u) =>
                /\ u \in DOMAIN redis_orders
                /\ Decode(redis_orders[u]).status = last_status[u])
    /\ [][\A u \in UUIDs :
            (Evicted(u) /\ u \in DOMAIN redis_orders /\ GetOrder(u)) =>
                /\ u \in DOMAIN mem_orders'
                /\ mem_orders'[u] = Decode(redis_orders[u])
         ]_vars

\* an evicted order has been read back into memory from the external store
C19_Witness ==
    /\ "u1" \in DOMAIN mem_orders
    /\ "u1" \in DOMAIN redis_orders
    /\ mem_orders["u1"].age > ExpireTime
    /\ mem_orders["u1"] = Decode(redis_orders["u1"])
    /\ sync_pc = "sleep"

\* ---------------------------------------------------------------------
\* C21: a status update delivered a second time, the same record for the
\* same uuid, changes nothing: _order_status_update leaves the orders map
\* and the open sets as they are, and _apply_spot_position does not change
\* the position again; this for every status, PARTIALLY_FILLED included.
CachedRecord(uuid, status) ==
    /\ uuid \in DOMAIN mem_orders
    /\ mem_orders[uuid] = [uuid |-> uuid, status |-> status, age |-> 0]

C21_DuplicateUpdateNoOp ==
    [][\A u \in CacheUuids, s \in OrderStatus :
          /\ (CachedRecord(u, s) /\ CacheOrderStatusUpdate(u, s))
                => UNCHANGED cacheVars
          /\ (CachedRecord(u, s) /\ applied_last[u] = s
                    /\ ApplySpotPosition(u, s))
                => UNCHANGED mem_spot_positions
      ]_vars

\* a FILLED order has been applied to its position and is still in memory
C21_Witness ==
    /\ CachedRecord("u1", "FILLED")
    /\ applied_last["u1"] = "FILLED"
    /\ "u1" \in mem_closed_orders
    /\ SpotPositionOf(SymbolOf("u1")) = 1
\* the external store mirrors the cache: every in-memory order has its entry
\* in the orders hash, and every exchange's external open_orders set is the
\* in-memory open set
RedisMirrorsCache ==
    /\ \A u \in DOMAIN mem_orders :
            /\ u \in DOMAIN redis_orders
            /\ Decode(redis_orders[u]) = mem_orders[u]
    /\ \A e \in Exchanges :
            GetSet(redis_open_orders, e) = GetSet(mem_open_orders, e)

\* C22: when a _sync_to_redis pass completes and the cache was not mutated
\* during it (SyncSpec: callers act only between passes), the orders hash
\* holds an entry for every in-memory order and, for every exchange, the
\* external open_orders set equals the in-memory open set exactly.
C22_SyncMirrorsOpenOrders ==
    [][SyncFinish => RedisMirrorsCache']_vars

\* two orders were opened, u1 was closed, and a pass has completed since:
\* the external open set is exactly the remaining u2
C22_Witness ==
    /\ sync_pc = "sleep"
    /\ DOMAIN mem_orders = {"u1", "u2"}
    /\ "u1" \in DOMAIN redis_orders
    /\ Decode(redis_orders["u1"]).status = "FILLED"
    /\ GetSet(mem_open_orders, "BINANCE") = {"u2"}
    /\ GetSet(redis_open_orders, "BINANCE") = {"u2"}

\* ---------------------------------------------------------------------
\* C23: a TWAP of total amount 0 has an empty slice list and submits no
\* child order: no connector call is made and no pending or failed event is
\* published for a child; the parent goes from RUNNING directly to FINISHED
\* with an empty orders list.
ZeroAmountTwap == twap_params.given /\ twap_params.amount = 0

C23_ZeroAmountFinishesAtOnce ==
    ZeroAmountTwap =>
        /\ CalculateTwapOrders(twap_params.amount, twap_params.interval,
                               twap_params.min_order_amount) = <<>>
        /\ twap.children = 0
        /\ twap.orders = <<>>
        /\ \A c \in Children :
                /\ c \notin DOMAIN qty
                /\ published["pending"][c] = 0
                /\ published["failed"][c] = 0
        /\ algo_recorded \in {<<>>, <<"RUNNING", "FINISHED">>}
        /\ AlgoUuid \in DOMAIN mem_algo_orders =>
                mem_algo_orders[AlgoUuid] =
                    [status |-> "FINISHED", orders |-> <<>>, age |-> 0]

\* the task of a TWAP of amount 0 has run
C23_Witness ==
    /\ ZeroAmountTwap
    /\ twap.pc = "done"
    /\ algo_recorded = <<"RUNNING", "FINISHED">>
    /\ mem_algo_orders[AlgoUuid].orders = <<>>

\* ---------------------------------------------------------------------
\* C24: a TWAP with 0 < total amount < min_order_amount has the slice list
\* <<min_order_amount>> and wait 0: one child order is submitted, of amount
\* min_order_amount, and no second one.
BelowMinTwap ==
    /\ twap_params.given
    /\ 0 < twap_params.amount
    /\ twap_params.amount < twap_params.min_order_amount

C24_BelowMinSingleSlice ==
    BelowMinTwap =>
        /\ CalculateTwapOrders(twap_params.amount, twap_params.interval,
                               twap_params.min_order_amount)
                = <<twap_params.min_order_amount>>
        /\ \A duration \in 1..3 :
                CalculateTwapWait(twap_params.amount, duration,
                                  twap_params.interval,
                                  twap_params.min_order_amount).num = 0
        /\ twap.children <= 1
        /\ \A c \in Children :
                c \in DOMAIN qty =>
                    qty[c].amount = twap_params.min_order_amount
        /\ twap.status \in {"FINISHED", "FAILED"} => twap.children = 1

\* the single child of a TWAP below the minimum was submitted and accepted
C24_Witness ==
    /\ BelowMinTwap
    /\ twap.pc = "done"
    /\ twap.orders = <<"c1">>
    /\ qty["c1"].amount = twap_params.min_order_amount

\* ---------------------------------------------------------------------
\* C25: _amount_to_precision and _price_to_precision round a value to the
\* step of the market: floor gives the largest multiple of the step not
\* above the value, ceil the smallest multiple not below it, round the
\* nearest multiple with a tie going up; a value rounded once is returned
\* unchanged when rounded again.
PrecisionReturned ==
    /\ calc.op \in {"amount_to_precision", "price_to_precision"}
    /\ calc.returned

\* result is value rounded to the multiples of step in the given mode
RoundedToStep(value, step, mode, result) ==
    /\ result % step = 0
    /\ mode = "floor" => result <= value /\ value - result < step
    /\ mode = "ceil" => result >= value /\ result - value < step
    /\ mode = "round" =>
            /\ 2 * (result - value) <= step
            /\ 2 * (value - result) < step

C25_PrecisionRoundsToStep ==
    PrecisionReturned =>
        /\ RoundedToStep(calc.value, calc.precision, calc.mode, calc.result)
        /\ AmountToMarketPrecision(calc.result, calc.precision, calc.mode)
                = calc.result
        /\ PriceToPrecision(calc.result, calc.precision, calc.mode)
                = calc.result

\* 0.0015 rounded to the step 0.001 in mode round is 0.002
C25_Witness ==
    /\ PrecisionReturned
    /\ calc.op = "amount_to_precision"
    /\ calc.value = 15
    /\ calc.precision = 10
    /\ calc.mode = "round"
    /\ calc.result = 20

\* ---------------------------------------------------------------------
\* C26: for every venue _get_min_order_amount returns a positive Decimal
\* that is a multiple of the lot step and not below
\* market.limits.amount.min: on Bybit max(6 / mid, market.limits.amount.min)
\* with mid = (bid + ask) / 2, on OKX and Binance market.limits.amount.min,
\* each rounded up to the lot step.
MinOrderAmountReturned == calc.op = "get_min_order_amount" /\ calc.returned

\* the smallest multiple of step not below the fraction num / den
CeilToStep(num, den, step) == ((num + den * step - 1) \div (den * step)) * step

\* 6 / mid = 12 / (bid + ask)
VenueMinOrderAmount(venue, bid, ask, limits_min, step) ==
    IF venue = "BYBIT"
    THEN Max(CeilToStep(12 * Scale, bid + ask, step),
             CeilToStep(limits_min, 1, step))
    ELSE CeilToStep(limits_min, 1, step)

C26_MinOrderAmountPerVenue ==
    MinOrderAmountReturned =>
        \E amount \in calc.result :
            /\ amount > 0
            /\ amount % calc.precision = 0
            /\ amount >= calc.limits_min
            /\ amount = VenueMinOrderAmount(calc.venue, calc.bid, calc.ask,
                                            calc.limits_min, calc.precision)

\* OKX, lot step 0.001, market minimum 0.001: the minimum is 0.001
C26_Witness ==
    /\ MinOrderAmountReturned
    /\ calc.venue = "OKX"
    /\ calc.precision = 10
    /\ calc.limits_min = 10
    /\ calc.result = {10}

\* ---------------------------------------------------------------------
\* C27: for total_amount >= min_order_amount > 0 and duration >= wait > 0,
\* _calculate_twap_orders returns a slice list that is not empty, whose
\* amounts add up to total_amount exactly, and whose every slice is at least
\* min_order_amount.
TwapOrdersReturned == calc.op = "calculate_twap_orders" /\ calc.returned

RECURSIVE Sum(_)
Sum(amount_list) ==
    IF amount_list = <<>> THEN 0
    ELSE amount_list[1] + Sum(SubSeq(amount_list, 2, Len(amount_list)))

C27_SlicesSumToTotal ==
    (/\ TwapOrdersReturned
     /\ calc.total_amount >= calc.min_order_amount
     /\ calc.duration >= calc.wait) =>
        /\ ~calc.result.raised
        /\ calc.result.amount_list # <<>>
        /\ Sum(calc.result.amount_list) = calc.total_amount
        /\ \A i \in 1..Len(calc.result.amount_list) :
                calc.result.amount_list[i] >= calc.min_order_amount

\* a remainder below the minimum was absorbed into the last slice
C27_Witness ==
    /\ TwapOrdersReturned
    /\ calc.total_amount = 35
    /\ calc.min_order_amount = 10
    /\ calc.duration = 3
    /\ calc.wait = 1
    /\ calc.result.amount_list = <<10, 10, 15>>

\* ---------------------------------------------------------------------
\* C30: the limit price of a slice is, for BUY, bid + tick when ask - bid >
\* tick and bid otherwise, and for SELL, ask - tick when ask - bid > tick
\* and ask otherwise; so for a book on the tick grid with bid < ask the BUY
\* price is at least bid and below ask, and the SELL price is at most ask
\* and above bid (the limit order never crosses the spread).
LimitOrderPriceReturned == calc.op = "cal_limit_order_price" /\ calc.returned

Bid == calc.bid_ticks * calc.basis_point
Ask == calc.ask_ticks * calc.basis_point

C30_LimitPriceInsideSpread ==
    LimitOrderPriceReturned =>
        /\ calc.side = "BUY" =>
                calc.result =
                    IF Ask - Bid > calc.basis_point
                    THEN Bid + calc.basis_point ELSE Bid
        /\ calc.side = "SELL" =>
                calc.result =
                    IF Ask - Bid > calc.basis_point
                    THEN Ask - calc.basis_point ELSE Ask
        /\ (Bid < Ask /\ calc.side = "BUY") =>
                calc.result >= Bid /\ calc.result < Ask
        /\ (Bid < Ask /\ calc.side = "SELL") =>
                calc.result <= Ask /\ calc.result > Bid

\* a BUY on a book one tick wide is priced at the bid, on a tick of 0.5
C30_Witness ==
    /\ LimitOrderPriceReturned
    /\ calc.side = "BUY"
    /\ calc.basis_point = 5000
    /\ calc.bid_ticks = 2
    /\ calc.ask_ticks = 3
    /\ calc.spread_error = 0
    /\ calc.result = 10000

\* ---------------------------------------------------------------------
\* C28: in the place phase every slice is submitted as a LIMIT order, except
\* the slice that empties the slice list, which is a MARKET order; a run
\* over n >= 1 slices that neither fails nor is cancelled submits n - 1
\* LIMIT slice orders and then one MARKET slice order (the reclaim orders of
\* the watch phase aside).
SliceIndexes ==
    {i \in 1..twap.children : qty[ChildUuids[i]].kind = "slice"}

SliceType(i) == qty[ChildUuids[i]].type

PlannedSlices ==
    Len(CalculateTwapOrders(twap_params.amount, twap_params.interval,
                            twap_params.min_order_amount))

C28_LimitSlicesThenMarket ==
    /\ (twap.pc = "create_order" /\ twap.kind = "slice") =>
            twap.type = IF twap.amount_list # <<>> THEN "LIMIT" ELSE "MARKET"
    /\ \A i \in SliceIndexes :
            SliceType(i) = "MARKET" =>
                /\ twap.amount_list = <<>>
                /\ \A j \in SliceIndexes : j <= i
                /\ \A j \in SliceIndexes : j < i => SliceType(j) = "LIMIT"
    /\ (twap.status = "FINISHED" /\ ~ChildSubmissionFailed) =>
            /\ Cardinality(SliceIndexes) = PlannedSlices
            /\ Cardinality({i \in SliceIndexes : SliceType(i) = "LIMIT"})
                    = Max(PlannedSlices - 1, 0)

\* a run over two slices has finished: a LIMIT slice, then a MARKET slice
C28_Witness ==
    /\ twap.status = "FINISHED"
    /\ ~ChildSubmissionFailed
    /\ PlannedSlices = 2
    /\ Cardinality(SliceIndexes) = 2
    /\ \E i, j \in SliceIndexes :
            i < j /\ SliceType(i) = "LIMIT" /\ SliceType(j) = "MARKET"

\* ---------------------------------------------------------------------
\* C29: when the watch phase observes its child closed with the remaining
\* quantity r: if r > min_order_amount, the next order submitted is a MARKET
\* order for exactly r, before any further slice, and on success its uuid is
\* appended to the parent's orders; otherwise no order is submitted for r
\* and r is added to the next slice to be placed.
Remaining(uuid) == qty[uuid].amount - qty[uuid].filled

\* the step in which the loop finds the watched child closed: order_id is
\* reset and the task goes on to a _create_order
ObservedClosed ==
    /\ twap.order_id # None
    /\ twap'.order_id = None
    /\ twap'.pc = "create_order"

\* the step in which the _create_order of a reclaim order returns
ReclaimReturned ==
    /\ twap.pc = "create_order"
    /\ twap.kind = "reclaim"
    /\ twap'.children = twap.children + 1

C29_ReclaimOrFoldRemaining ==
    [][/\ ObservedClosed =>
            LET r == Remaining(twap.order_id)
                n == Len(twap.amount_list)
            IN  IF r > twap_params.min_order_amount
                THEN /\ twap'.kind = "reclaim"
                     /\ twap'.type = "MARKET"
                     /\ twap'.amount = r
                     /\ twap'.amount_list = twap.amount_list
                ELSE /\ twap'.kind = "slice"
                     /\ twap'.amount = twap.amount_list[n] + r
                     /\ twap'.amount_list = SubSeq(twap.amount_list, 1, n - 1)
       /\ ReclaimReturned =>
            LET uuid == ChildUuids[twap'.children]
            IN  /\ qty'[uuid].type = "MARKET"
                /\ qty'[uuid].kind = "reclaim"
                /\ qty'[uuid].amount = twap.amount
                /\ published'["pending"][uuid] = 1 =>
                        /\ twap'.orders = Append(twap.orders, uuid)
                        /\ mem_algo_orders'[AlgoUuid].orders = twap'.orders
      ]_vars

\* the first slice closed with more than the minimum remaining, and the
\* MARKET order for that remaining quantity is among the parent's orders
C29_Witness ==
    /\ twap.children >= 2
    /\ Len(twap.orders) >= 2
    /\ twap.orders[2] = "c2"
    /\ qty["c2"].kind = "reclaim"
    /\ qty["c2"].type = "MARKET"
    /\ Remaining("c1") > twap_params.min_order_amount
    /\ qty["c2"].amount = Remaining("c1")

\* ---------------------------------------------------------------------
\* C31: AlgoOrder.orders only grows at its end during a TWAP run: every
\* step leaves the list a prefix of the list after it; a uuid is added only
\* by the return of a child's _create_order with success, one at a time; a
\* return without success adds nothing; every uuid of the list has a
\* registry entry; the cache holds the same list.
IsPrefix(s, t) == Len(s) <= Len(t) /\ SubSeq(t, 1, Len(s)) = s

\* the step is the return of _create_order of the next child, with success
\* or without
ChildCreateReturned(success) ==
    /\ twap.pc = "create_order"
    /\ twap'.children = twap.children + 1
    /\ LET uuid == ChildUuids[twap'.children]
           endpoint == IF success THEN "pending" ELSE "failed"
       IN  published'[endpoint][uuid] = published[endpoint][uuid] + 1

C31_OrdersAppendOnly ==
    /\ [][/\ IsPrefix(twap.orders, twap'.orders)
          /\ twap'.orders # twap.orders =>
                /\ ChildCreateReturned(TRUE)
                /\ twap'.orders = Append(twap.orders, ChildUuids[twap'.children])
          /\ ChildCreateReturned(FALSE) => twap'.orders = twap.orders]_vars
    /\ [](\A i \in 1..Len(twap.orders) :
            /\ HasOrderId(twap.orders[i])
            /\ published["failed"][twap.orders[i]] = 0)
    /\ [](AlgoUuid \in DOMAIN mem_algo_orders =>
            mem_algo_orders[AlgoUuid].orders = twap.orders)

\* two children are in the list and the submission of a third has failed
C31_Witness ==
    /\ Len(twap.orders) = 2
    /\ twap.children = 3
    /\ published["failed"][ChildUuids[3]] = 1
    /\ mem_algo_orders[AlgoUuid].orders = <<ChildUuids[1], ChildUuids[2]>>

\* ---------------------------------------------------------------------
\* C32: after _build the default account is chosen by fixed priority among
\* the registered account types: OKX the first registered of DEMO, AWS,
\* LIVE; Bybit UNIFIED_TESTNET when it is registered; Binance the first
\* registered of ISOLATED_MARGIN, MARGIN, SPOT_TESTNET, SPOT for spot,
\* the testnet variant over USD_M_FUTURE for linear and over COIN_M_FUTURE
\* for inverse; and with PORTFOLIO_MARGIN registered every envelope without
\* an explicit account type lies on the PORTFOLIO_MARGIN queue, whatever
\* its instrument kind.
Registered == Keys(venue_ems.private_connectors)

\* account type a is registered and none of the account types before is
BestOf(a, before) == a \in Registered /\ before \cap Registered = {}

\* the account type an envelope without explicit account type goes to
DefaultFor(kind) == ResolveAccountType(venue_ems, kind, None)

\* the envelopes without explicit account type on the queue of a
Defaulted(a) ==
    {i \in 1..Len(venue_ems.order_submit_queues[a]) :
        venue_ems.order_submit_queues[a][i].account_type = None}

C32_DefaultAccountByPriority ==
    venue_ems.built =>
        /\ venue_ems.venue = "OKX" =>
            /\ BestOf("DEMO", {}) => DefaultFor("spot") = "DEMO"
            /\ BestOf("AWS", {"DEMO"}) => DefaultFor("spot") = "AWS"
            /\ BestOf("LIVE", {"DEMO", "AWS"}) => DefaultFor("spot") = "LIVE"
        /\ venue_ems.venue = "BYBIT" =>
            (BestOf("UNIFIED_TESTNET", {}) =>
                DefaultFor("spot") = "UNIFIED_TESTNET")
        /\ venue_ems.venue = "BINANCE" /\ "PORTFOLIO_MARGIN" \notin Registered =>
            /\ BestOf("ISOLATED_MARGIN", {}) =>
                    DefaultFor("spot") = "ISOLATED_MARGIN"
            /\ BestOf("MARGIN", {"ISOLATED_MARGIN"}) =>
                    DefaultFor("spot") = "MARGIN"
            /\ BestOf("SPOT_TESTNET", {"ISOLATED_MARGIN", "MARGIN"}) =>
                    DefaultFor("spot") = "SPOT_TESTNET"
            /\ BestOf("SPOT", {"ISOLATED_MARGIN", "MARGIN", "SPOT_TESTNET"}) =>
                    DefaultFor("spot") = "SPOT"
            /\ BestOf("USD_M_FUTURE_TESTNET", {}) =>
                    DefaultFor("linear") = "USD_M_FUTURE_TESTNET"
            /\ BestOf("USD_M_FUTURE", {"USD_M_FUTURE_TESTNET"}) =>
                    DefaultFor("linear") = "USD_M_FUTURE"
            /\ BestOf("COIN_M_FUTURE_TESTNET", {}) =>
                    DefaultFor("inverse") = "COIN_M_FUTURE_TESTNET"
            /\ BestOf("COIN_M_FUTURE", {"COIN_M_FUTURE_TESTNET"}) =>
                    DefaultFor("inverse") = "COIN_M_FUTURE"
        /\ venue_ems.venue = "BINANCE" /\ "PORTFOLIO_MARGIN" \in Registered =>
            /\ ~venue_ems.raised
            /\ \A a \in DOMAIN venue_ems.order_submit_queues :
                    Defaulted(a) # {} => a = "PORTFOLIO_MARGIN"
            /\ \A kind \in InstrumentKinds :
                    DefaultFor(kind) = "PORTFOLIO_MARGIN"

\* a Binance EMS built with SPOT registered before SPOT_TESTNET and MARGIN
\* has routed a spot envelope without explicit account type to MARGIN
C32_Witness ==
    /\ venue_ems.venue = "BINANCE"
    /\ venue_ems.private_connectors = <<"SPOT", "SPOT_TESTNET", "MARGIN">>
    /\ venue_ems.routed = 1
    /\ Defaulted("MARGIN") # {}

\* ---------------------------------------------------------------------
\* C33: after _build with any non-empty set of private connectors of the
\* venue, the account type _submit_order resolves for an envelope without
\* explicit account type has a queue, whatever the instrument kind, and no
\* such _submit_order fails.
C33_DefaultAccountHasQueue ==
    venue_ems.built =>
        /\ \A kind \in InstrumentKinds :
                DefaultFor(kind) \in DOMAIN venue_ems.order_submit_queues
        /\ \A i \in 1..Len(venue_ems.rejected) :
                venue_ems.rejected[i].account_type # None

\* an OKX EMS built with LIVE registered before DEMO has been given an
\* envelope without explicit account type
C33_Witness ==
    /\ venue_ems.venue = "OKX"
    /\ venue_ems.private_connectors = <<"LIVE", "DEMO">>
    /\ venue_ems.routed = 1
    /\ venue_ems.rejected # <<>>
    /\ venue_ems.rejected[1].account_type = None

\* ---------------------------------------------------------------------
\* C34: when the TWAP envelope of a parent and one CANCEL_TWAP envelope
\* after it on the same queue have both been handled and the task has
\* ended, the cache holds the parent with status CANCELED, or with the
\* FINISHED or FAILED it had reached before; also when the worker took the
\* CANCEL_TWAP before the task ran its first step.
TwapThenCancelHandled ==
    /\ twap_params.given
    /\ \A a \in AccountTypes : submitted[a] = 2 /\ handled[a] = 2

TaskEnded == twap.pc \in {"done", "cancelled"}

C34_CancelTwapEndsCanceled ==
    TwapThenCancelHandled /\ TaskEnded =>
        /\ AlgoUuid \in DOMAIN mem_algo_orders
        /\ mem_algo_orders[AlgoUuid].status \in {"CANCELED", "FINISHED", "FAILED"}

\* both envelopes have been handled and the task was cancelled before its
\* first step
C34_Witness ==
    /\ TwapThenCancelHandled
    /\ twap.pc = "cancelled"
    /\ algo_recorded = <<>>

\* ---------------------------------------------------------------------
\* C35: when the parent is recorded CANCELED, every child order of the
\* parent that the venue accepted is closed in the cache or has had a
\* cancel issued for it; also the child whose create_order call was under
\* way when the task was cancelled.
AcceptedChildren ==
    {c \in Children : published["pending"][c] > 0}
        \cup (IF twap.dropped # None THEN {twap.dropped} ELSE {})

ChildClosed(c) == c \in DOMAIN mem_orders /\ IsClosed(mem_orders[c].status)

ParentRecorded(status) ==
    /\ AlgoUuid \in DOMAIN mem_algo_orders
    /\ mem_algo_orders[AlgoUuid].status = status

C35_CanceledLeavesNoOpenChild ==
    ParentRecorded("CANCELED") =>
        \A c \in AcceptedChildren : ChildClosed(c) \/ CancelIssued(c)

\* the parent is CANCELED after a cancellation that arrived while the
\* create_order call of the second child was under way, and the venue had
\* accepted that child
C35_Witness ==
    /\ ParentRecorded("CANCELED")
    /\ twap.dropped = ChildUuids[2]
    /\ published["pending"][ChildUuids[1]] = 1

\* ---------------------------------------------------------------------
\* C36: a TWAP run has at most one child that is not closed: the step that
\* begins the _create_order of a slice or of a reclaim order finds every
\* child submitted before closed in the cache, and at any time the only
\* child of the parent's list that may be not closed is the watched one.
CreateBegins == twap.pc # "create_order" /\ twap'.pc = "create_order"

Outstanding == {c \in Children : \E i \in 1..Len(twap.orders) :
                                    twap.orders[i] = c /\ ~ChildClosed(c)}

C36_OneOutstandingChild ==
    /\ [][CreateBegins =>
            \A i \in 1..Len(twap.orders) :
                /\ twap.orders[i] \in DOMAIN mem_orders'
                /\ IsClosed(mem_orders'[twap.orders[i]].status)]_vars
    /\ [](Cardinality(Outstanding) <= 1)
    /\ [](twap.pc \in {"create_order", "cancel_order", "sleep"} =>
            Outstanding \subseteq {twap.order_id})

\* the create of a third child is under way after a slice and a reclaim
\* order that both closed
C36_Witness ==
    /\ twap.pc = "create_order"
    /\ Len(twap.orders) = 2
    /\ qty[twap.orders[2]].kind = "reclaim"
    /\ Outstanding = {}

\* ---------------------------------------------------------------------
\* C37: in a TWAP run with total_amount >= min_order_amount, wherever the
\* loop is suspended, the slice amounts not yet placed, plus the amount of
\* the child being submitted or watched, plus what the children dealt with
\* before have filled (their amount less the remaining quantity that was
\* folded or reclaimed), add up to total_amount.
InLoop == twap.pc \in {"create_order", "cancel_order", "sleep"}

\* the amount of the child under way: the watched child, or the order whose
\* _create_order has not returned
InHand ==
    IF twap.order_id # None THEN qty[twap.order_id].amount
    ELSE IF twap.pc = "create_order" THEN twap.amount ELSE 0

\* the children whose closing the loop has dealt with
Processed == SelectSeq(twap.orders, LAMBDA c : c # twap.order_id)

C37_QuantityConserved ==
    (/\ twap_params.given
     /\ twap_params.amount >= twap_params.min_order_amount
     /\ InLoop) =>
        Sum(twap.amount_list) + InHand + FilledSum(Processed)
            = twap_params.amount

\* a run of total 4 in which the first slice was reclaimed in full and one
\* lot of the reclaim order was folded into the last slice
C37_Witness ==
    /\ InLoop
    /\ twap_params.amount = 4
    /\ Len(twap.orders) = 3
    /\ qty[twap.orders[2]].kind = "reclaim"
    /\ qty[twap.orders[2]].filled = 1
    /\ qty[twap.orders[3]].amount = 3

\* ---------------------------------------------------------------------
\* C38: a TWAP parent that is RUNNING eventually is FINISHED, FAILED or
\* CANCELED, when every connector call returns and every accepted child is
\* eventually closed at the venue and in the cache; also when a cancel of
\* the watched child fails.
ParentDone == twap.status \in {"FINISHED", "FAILED", "CANCELED"}

GetSymbolOrders(symbol, in_mem) ==
    LET memory_orders == GetSet(mem_symbol_orders, symbol)
    IN  IF in_mem THEN memory_orders
        ELSE memory_orders \cup GetSet(redis_symbol_orders, symbol)

\* a sync has written the uuid to the symbol_orders set of its symbol
WrittenBySync(u) == u \in GetSet(redis_symbol_orders, SymbolOf(u))

\* C39: a uuid that a sync has written to the symbol_orders set of its
\* symbol stays in get_symbol_orders(symbol, in_mem=False) from then on,
\* also after the order was evicted from memory and later syncs have run.
C39_SymbolOrdersKeepHistory ==
    [][\A u \in UUIDs :
            WrittenBySync(u) => u \in GetSymbolOrders(SymbolOf(u), FALSE)']_vars

\* u1 was written by a sync and evicted, a later sync has run, and
\* get_symbol_orders(symbol, in_mem=False) does not have it
C39_Witness ==
    /\ sync_pc = "sleep"
    /\ "u1" \in DOMAIN redis_orders
    /\ "u1" \notin DOMAIN mem_orders
    /\ SymbolOf("u1") \in DOMAIN redis_symbol_orders
    /\ "u1" \notin GetSymbolOrders(SymbolOf("u1"), FALSE)

\* ---------------------------------------------------------------------
\* the uuids of _mem_open_orders / of _mem_symbol_open_orders, over all keys
OpenByExchange == UNION {mem_open_orders[e] : e \in DOMAIN mem_open_orders}
OpenBySymbol ==
    UNION {mem_symbol_open_orders[s] : s \in DOMAIN mem_symbol_open_orders}

\* C40: the two open-order indexes agree: a uuid is in open_orders[e] for
\* some exchange e exactly when it is in symbol_open_orders[s] for some
\* symbol s, and e and s are the exchange and the symbol of its order.
C40_OpenIndexesAgree ==
    /\ OpenByExchange = OpenBySymbol
    /\ \A e \in DOMAIN mem_open_orders :
            \A u \in mem_open_orders[e] : e = ExchangeOf(u)
    /\ \A s \in DOMAIN mem_symbol_open_orders :
            \A u \in mem_symbol_open_orders[s] : s = SymbolOf(u)

\* one order is open and in both indexes, another was added to both and,
\* closed, has been discarded from both
C40_Witness ==
    \E u, v \in DOMAIN mem_orders :
        /\ u \in GetSet(mem_open_orders, ExchangeOf(u))
        /\ u \in GetSet(mem_symbol_open_orders, SymbolOf(u))
        /\ IsClosed(mem_orders[v].status)
        /\ v \notin OpenByExchange \cup OpenBySymbol

====
